---- MODULE Spec2Model ----
(***************************************************************************)
(* A state-machine model of the sandboxed interaction-and-animation        *)
(* runtime of LIV-Docs (src/wasm/interactive-engine/src/lib.rs).           *)
(*                                                                         *)
(* Conventions                                                             *)
(*   - Timestamps are whole milliseconds (get_current_timestamp returns    *)
(*     as_millis() as f64); the clock is counted from the instant the      *)
(*     engine is constructed, so SecurityContext.start_time is 0.          *)
(*   - "element_<ms>" / "anim_<ms>" identifiers are modelled by the        *)
(*     integer <ms> they are formatted from.                               *)
(*   - Result::Ok is the code "Ok", an Err is its WASMError code.          *)
(*   - Every operation leaves its outcome in the variable result, which    *)
(*     plays the role of the value returned to the caller.                 *)
(***************************************************************************)
EXTENDS Integers, Sequences, FiniteSets, TLC

VARIABLES
    clock,                \* get_current_timestamp(), ms since construction
    security_context,     \* InteractiveEngine.security_context
    document_state,       \* InteractiveEngine.document_state
    animation_controller, \* InteractiveEngine.animation_controller
    interaction_manager,  \* InteractiveEngine.interaction_manager
    gesture_recognizer,   \* InteractiveEngine.gesture_recognizer
    responsive_adapter,   \* InteractiveEngine.responsive_adapter
    editor_state,         \* EditorEngine.state
    result                \* what the last call returned

vars == << clock, security_context, document_state, animation_controller,
           interaction_manager, gesture_recognizer, responsive_adapter, editor_state,
           result >>

\* Option<T>: None is the empty sequence, Some(x) the one-element sequence
None == << >>
Some(x) == << x >>
IsSome(o) == o # << >>
Unwrap(o) == o[1]

(***************************************************************************)
(* Bounds of the model                                                     *)
(***************************************************************************)
\* width of usize in bits (32 on wasm32; scaled down, the arithmetic is % 2^w)
UsizeBits == 3
\* WASMPermissions.memory_limit handed to the sandbox
MemoryLimit == 3
\* WASMPermissions.cpu_time_limit handed to the sandbox (ms)
CpuTimeLimit == 1
\* WASMPermissions.max_elements handed to the sandbox
MaxElementsLimit == 1
\* last clock value explored by the engine-level specifications
MaxClock == 3
\* most elements kept in the document at once
MaxDocElements == 2
\* most animations created
MaxAnimations == 1
\* most interaction events counted by the interaction specification
MaxEvents == 2
\* most elements and most events in the specifications that need only a target
MaxTargets == 1
\* most event handlers on one element
MaxHandlers == 1
\* the interaction specification's clock: its step and its last value (ms)
InteractTickStep == 10
InteractMaxClock == 11
\* the rate specification's clock: its step and its last value (ms), and the
\* most checks it counts
RateTickStep == 10
RateMaxClock == 570
MaxRateEvents == 57
\* the gesture specification's clock: its step and its last value (ms)
GestureTickStep == 100
GestureMaxClock == 300
\* most samples kept in one recognition, most gestures kept in the history
MaxSamples == 3
MaxGestures == 1

\* SpecSwipe: the clock moves in steps of SwipeTickStep ms up to SwipeMaxClock
SwipeTickStep == 100
SwipeMaxClock == 400

\* SpecAnimation: render_frame is given the frame times k * FrameStep for
\* -FramesBefore <= k <= FramesAfter, around an animation of AnimationDuration ms
FrameStep == 250
FramesBefore == 4
FramesAfter == 5
AnimationDuration == 1000

\* SpecDelegate: at most MaxDelegates delegates are registered at a time and
\* DelegateMaxEvents events submitted
MaxDelegates == 3
DelegateMaxEvents == 1

\* SpecKeyboard: KeyboardMaxEvents events are submitted
KeyboardMaxEvents == 3

\* SpecMouse: MouseMaxEvents events are submitted; a move goes MouseFar units
\* away from the origin, beyond the drag threshold
MouseMaxEvents == 3
MouseFar == 10

\* SpecClick: the clock advances by ClickTickStep up to ClickMaxClock and
\* ClickMaxEvents events are submitted
ClickTickStep == 250
ClickMaxClock == 750
ClickMaxEvents == 3

\* SpecTouch: TouchMaxEvents touch events are submitted
TouchMaxEvents == 3

\* SpecCleanup: the clock advances by CleanupTickStep up to CleanupMaxClock
CleanupTickStep == 250
CleanupMaxClock == 1500

\* SpecTap: the clock advances by TapTickStep up to TapMaxClock and
\* TapMaxEvents events are submitted
TapTickStep == 100
TapMaxClock == 300
TapMaxEvents == 3

\* SpecFocus: FocusMaxEvents events are submitted
FocusMaxEvents == 4

\* SpecDocument: DocumentMaxEvents events are submitted
DocumentMaxEvents == 1

\* SpecBare: BareMaxEvents events are submitted
BareMaxEvents == 2

\* EditHistory.max_operations (100 in EditHistory::default, scaled down)
EditMaxOperations == 2
\* SpecEditor: the most elements kept in the editor document
EditMaxElements == 1
\* SpecEditorIds: the most elements kept in the editor document
EditIdsMaxElements == 3

\* SpecHistory: the clock advances by one up to HistoryMaxClock and
\* process_touch_input is called HistoryMaxCalls times
HistoryMaxClock == 1
HistoryMaxCalls == 103

UsizeModulus == 2 ^ UsizeBits
UsizeMax == UsizeModulus - 1

(***************************************************************************)
(* SecurityContext                                                         *)
(***************************************************************************)
\* ResourceLimits.max_interactions_per_second set by SecurityContext::new
DefaultMaxInteractionsPerSecond == 100

\* every InteractionType, by its Debug name
InteractionTypes ==
    { "Click", "DoubleClick", "MouseDown", "MouseUp", "MouseMove", "MouseEnter",
      "MouseLeave", "Hover", "TouchStart", "TouchMove", "TouchEnd", "TouchCancel",
      "Tap", "DoubleTap", "LongPress", "Pinch", "Rotate", "Swipe", "Pan",
      "DragStart", "Drag", "DragEnd", "Drop", "Scroll", "Wheel",
      "KeyDown", "KeyUp", "KeyPress", "Resize", "Focus", "Blur",
      "DataUpdate", "StateChange" }

\* the operation names looked up in allowed_interactions by the check_* methods
OperationNames ==
    { "create_element", "modify_element", "create_animation", "create_event_handler" }

WASMPermissions(allowed) ==
    [ memory_limit         |-> MemoryLimit,
      cpu_time_limit       |-> CpuTimeLimit,
      allowed_interactions |-> allowed,
      max_elements         |-> MaxElementsLimit ]

\* SecurityContext::new
SecurityContextNew(permissions, now) ==
    [ permissions       |-> permissions,
      resource_limits   |->
          [ max_memory                  |-> permissions.memory_limit,
            max_cpu_time                |-> permissions.cpu_time_limit,
            max_interactions_per_second |-> DefaultMaxInteractionsPerSecond,
            max_elements                |-> permissions.max_elements ],
      allocated_memory  |-> 0,
      interaction_count |-> 0,
      start_time        |-> now ]

\* The counts c for which the f64 quotient  (c as f64) / ((10*c) as f64 / 1000.0)
\* is rounded to a value above 100.0 although c / (10*c / 1000) = 100 exactly
\* (IEEE-754 binary64, round-to-nearest; e.g. 570.0/1000.0 is rounded below
\* 0.57 and 57.0 divided by it gives 100.00000000000001).  Counts up to 199.
F64QuotientAbove100 == { 57, 69, 113, 114, 115, 138 }

\* rate > max_interactions_per_second  where
\* rate = (interaction_count as f64) / (elapsed / 1000.0), elapsed > 0.
\* Away from equality the f64 result is on the same side as the exact quotient
\* (the relative gap 1/(10*count) dwarfs the rounding error 2^-52).
RateExceeds(count, elapsed, max_per_second) ==
    \/ count * 1000 > max_per_second * elapsed
    \/ /\ count * 1000 = max_per_second * elapsed
       /\ max_per_second = DefaultMaxInteractionsPerSecond
       /\ count \in F64QuotientAbove100

\* check_interaction_permission counting the event before it looks the kind up
check_interaction_permission_counting_first(sc, event_type, now) ==
    LET counted == [sc EXCEPT !.interaction_count = @ + 1]
        elapsed == now - sc.start_time
    IN  IF event_type \notin sc.permissions.allowed_interactions
        THEN [sc |-> counted, code |-> "INTERACTION_NOT_ALLOWED"]
        ELSE IF /\ elapsed > 0
                /\ RateExceeds(counted.interaction_count, elapsed,
                               sc.resource_limits.max_interactions_per_second)
             THEN [sc |-> counted, code |-> "INTERACTION_RATE_EXCEEDED"]
             ELSE [sc |-> counted, code |-> "Ok"]

\* SecurityContext::check_interaction_permission; now = get_current_timestamp()
check_interaction_permission(sc, event_type, now) ==
    IF event_type \notin sc.permissions.allowed_interactions
    THEN [sc |-> sc, code |-> "INTERACTION_NOT_ALLOWED"]
    ELSE LET counted == [sc EXCEPT !.interaction_count = @ + 1]
             elapsed == now - sc.start_time
         IN  IF /\ elapsed > 0
                /\ RateExceeds(counted.interaction_count, elapsed,
                               sc.resource_limits.max_interactions_per_second)
             THEN [sc |-> counted, code |-> "INTERACTION_RATE_EXCEEDED"]
             ELSE [sc |-> counted, code |-> "Ok"]

\* check_render_permission failing from elapsed = max_cpu_time on
check_render_permission_inclusive(sc, now) ==
    IF now - sc.start_time >= sc.resource_limits.max_cpu_time
    THEN "CPU_TIME_EXCEEDED"
    ELSE "Ok"

\* SecurityContext::check_render_permission
check_render_permission(sc, now) ==
    IF now - sc.start_time > sc.resource_limits.max_cpu_time
    THEN "CPU_TIME_EXCEEDED"
    ELSE "Ok"

\* the outcomes of `allocated_memory + size` on usize: the sum when it fits;
\* on overflow the wrapped sum (overflow checks off, the release profile) or a
\* panic (overflow checks on, the debug profile)
UsizeAddOutcomes(a, b) ==
    IF a + b <= UsizeMax
    THEN { [panic |-> FALSE, value |-> a + b] }
    ELSE { [panic |-> FALSE, value |-> (a + b) % UsizeModulus],
           [panic |-> TRUE,  value |-> a] }

\* allocate_memory without the comparison against max_memory
allocate_memory_unchecked(sc, size, sum) ==
    IF sum.panic
    THEN [sc |-> sc, code |-> "PANIC"]
    ELSE [sc |-> [sc EXCEPT !.allocated_memory = sum.value], code |-> "Ok"]

\* SecurityContext::allocate_memory, for one outcome `sum` of the addition
allocate_memory(sc, size, sum) ==
    IF sum.panic
    THEN [sc |-> sc, code |-> "PANIC"]
    ELSE IF sum.value > sc.resource_limits.max_memory
         THEN [sc |-> sc, code |-> "MEMORY_LIMIT_EXCEEDED"]
         ELSE \* `self.allocated_memory += size` repeats the same addition
              [sc |-> [sc EXCEPT !.allocated_memory = sum.value], code |-> "Ok"]

\* SecurityContext::deallocate_memory (saturating_sub)
deallocate_memory(sc, size) ==
    [sc EXCEPT !.allocated_memory = IF size > @ THEN 0 ELSE @ - size]

\* SecurityContext::check_element_creation
check_element_creation(sc) ==
    IF "create_element" \notin sc.permissions.allowed_interactions
    THEN "ELEMENT_CREATION_NOT_ALLOWED"
    ELSE "Ok"

\* SecurityContext::check_element_modification
check_element_modification(sc) ==
    IF "modify_element" \notin sc.permissions.allowed_interactions
    THEN "ELEMENT_MODIFICATION_NOT_ALLOWED"
    ELSE "Ok"

\* SecurityContext::check_animation_creation
check_animation_creation(sc) ==
    IF "create_animation" \notin sc.permissions.allowed_interactions
    THEN "ANIMATION_CREATION_NOT_ALLOWED"
    ELSE "Ok"

\* SecurityContext::check_event_handler_creation
check_event_handler_creation(sc) ==
    IF "create_event_handler" \notin sc.permissions.allowed_interactions
    THEN "EVENT_HANDLER_CREATION_NOT_ALLOWED"
    ELSE "Ok"

(***************************************************************************)
(* DocumentState                                                           *)
(*   elements      : sequence of [id, event_handlers]                      *)
(*   animations    : sequence of Animation                                 *)
(*   render_tree   : [nodes : id -> [visible], dirty_nodes : sequence]     *)
(*   viewport      : Viewport                                              *)
(* data_sources stays empty: the engine API has no operation that adds a   *)
(* data source (only the wasm_bindgen wrapper create_data_source does).    *)
(***************************************************************************)
Viewport(width, height) ==
    [ width |-> width, height |-> height, scale |-> 1, offset_x |-> 0, offset_y |-> 0 ]

\* DocumentState::default
DocumentStateDefault ==
    [ elements    |-> << >>,
      animations  |-> << >>,
      viewport    |-> Viewport(1920, 1080),
      render_tree |-> [ nodes |-> << >>, dirty_nodes |-> << >> ] ]

ElementIds(doc) == { doc.elements[i].id : i \in 1..Len(doc.elements) }

\* HashMap::insert / HashMap::remove on a function (Vec::retain is SelectSeq)
MapInsert(map, key, value) ==
    [ k \in DOMAIN map \cup {key} |-> IF k = key THEN value ELSE map[k] ]
MapRemove(map, key) == [ k \in DOMAIN map \ {key} |-> map[k] ]

\* DocumentState::get_element
get_element(doc, element_id) ==
    IF element_id \in ElementIds(doc)
    THEN LET i == CHOOSE j \in 1..Len(doc.elements) : doc.elements[j].id = element_id
         IN  Some(doc.elements[i])
    ELSE None

\* add_element marking the node dirty before it looks for the duplicate
add_element_dirty_first(doc, element) ==
    IF \E i \in 1..Len(doc.elements) : doc.elements[i].id = element.id
    THEN [doc |-> [doc EXCEPT !.render_tree.dirty_nodes = Append(@, element.id)],
          code |-> "ELEMENT_EXISTS"]
    ELSE [doc |-> [doc EXCEPT
                     !.elements = Append(@, element),
                     !.render_tree.nodes = MapInsert(@, element.id, [visible |-> TRUE]),
                     !.render_tree.dirty_nodes = Append(@, element.id)],
          code |-> "Ok"]

\* DocumentState::add_element
add_element(doc, element) ==
    IF \E i \in 1..Len(doc.elements) : doc.elements[i].id = element.id
    THEN [doc |-> doc, code |-> "ELEMENT_EXISTS"]
    ELSE [doc |-> [doc EXCEPT
                     !.elements = Append(@, element),
                     !.render_tree.nodes = MapInsert(@, element.id, [visible |-> TRUE]),
                     !.render_tree.dirty_nodes = Append(@, element.id)],
          code |-> "Ok"]

\* DocumentState::remove_element
remove_element(doc, element_id) ==
    IF element_id \notin ElementIds(doc)
    THEN [doc |-> doc, code |-> "ELEMENT_NOT_FOUND"]
    ELSE LET KeepElement(e) == e.id # element_id
             KeepDirty(id) == id # element_id
             KeepAnimation(a) == a.target_element # element_id
         IN  \* ids are unique, so removing the first match removes the only one
             [doc |-> [doc EXCEPT
                         !.elements = SelectSeq(@, KeepElement),
                         !.render_tree.nodes = MapRemove(@, element_id),
                         !.render_tree.dirty_nodes = SelectSeq(@, KeepDirty),
                         !.animations = SelectSeq(@, KeepAnimation)],
              code |-> "Ok"]

\* HashMap::insert of every entry of `entries` into `map`
MapExtend(map, entries) ==
    [ k \in DOMAIN map \cup DOMAIN entries |->
        IF k \in DOMAIN entries THEN entries[k] ELSE map[k] ]

\* DocumentState::update_element (the computed style of the render node is
\* not modelled)
update_element(doc, element_id, properties) ==
    IF element_id \notin ElementIds(doc)
    THEN [doc |-> doc, code |-> "ELEMENT_NOT_FOUND"]
    ELSE LET i == CHOOSE j \in 1..Len(doc.elements) : doc.elements[j].id = element_id
             dirty == doc.render_tree.dirty_nodes
         IN  [doc |-> [doc EXCEPT
                         !.elements[i].properties = MapExtend(@, properties),
                         !.render_tree.dirty_nodes =
                             IF \E j \in 1..Len(dirty) : dirty[j] = element_id
                             THEN dirty ELSE Append(dirty, element_id)],
              code |-> "Ok"]

\* an update_viewport that marks every element dirty, marked or not
update_viewport_marking_again(doc, width, height, scale) ==
    [ doc EXCEPT !.viewport.width = width,
                 !.viewport.height = height,
                 !.viewport.scale = scale,
                 !.render_tree.dirty_nodes =
                     @ \o [ i \in 1..Len(doc.elements) |-> doc.elements[i].id ] ]

\* the loop of update_viewport over the element ids, from element i on
RECURSIVE MarkAllDirty(_, _, _)
MarkAllDirty(dirty_nodes, elements, i) ==
    IF i > Len(elements) THEN dirty_nodes
    ELSE MarkAllDirty(IF \E j \in 1..Len(dirty_nodes) : dirty_nodes[j] = elements[i].id
                      THEN dirty_nodes
                      ELSE Append(dirty_nodes, elements[i].id),
                      elements, i + 1)

\* InteractiveEngine::update_viewport, on the document
update_viewport(doc, width, height, scale) ==
    [ doc EXCEPT !.viewport.width = width,
                 !.viewport.height = height,
                 !.viewport.scale = scale,
                 !.render_tree.dirty_nodes = MarkAllDirty(@, doc.elements, 1) ]

(***************************************************************************)
(* AnimationController                                                     *)
(*   active_animations : id -> [animation, start_time, current_iteration]  *)
(* Keyframe values are not modelled; progress is the rational              *)
(* eased_num / duration^2.                                                 *)
(***************************************************************************)
\* AnimationController::new
AnimationControllerNew == [ active_animations |-> << >> ]

\* AnimationController::start_animation
start_animation(ac, animation, now) ==
    [ac EXCEPT !.active_animations =
        MapInsert(@, animation.id,
                  [ animation         |-> animation,
                    start_time        |-> now,
                    current_iteration |-> 0 ])]

\* AnimationController::stop_animation
stop_animation(ac, animation_id) ==
    [ac EXCEPT !.active_animations = MapRemove(@, animation_id)]

\* progress = (elapsed / duration).min(1.0), as the numerator over duration
RawProgress(elapsed, duration) == IF elapsed >= duration THEN duration ELSE elapsed

\* apply_easing: numerator of the eased progress over duration^2, for raw
\* progress n / d (Cubic is not used by any animation the model creates)
apply_easing(n, d, easing) ==
    CASE easing = "Linear"    -> n * d
      [] easing = "EaseIn"    -> n * n
      [] easing = "EaseOut"   -> d * d - (d - n) * (d - n)
      [] easing = "EaseInOut" -> IF 2 * n < d
                                 THEN 2 * n * n
                                 ELSE d * d - 2 * (d - n) * (d - n)

\* the AnimationUpdate change record of one active animation at `timestamp`
AnimationChange(active, timestamp) ==
    LET d == active.animation.duration
        n == RawProgress(timestamp - active.start_time, d)
    IN  [ animation_id |-> active.animation.id,
          progress_num |-> apply_easing(n, d, active.animation.easing),
          progress_den |-> d * d ]

\* a tick that restarts every animation it meets, complete or not
AnimationAfterTick_restarting(active, timestamp) ==
    IF timestamp - active.start_time >= active.animation.duration
    THEN LET iterated == [active EXCEPT !.current_iteration = @ + 1]
         IN  IF \/ active.animation.loop_count = -1
                \/ iterated.current_iteration < active.animation.loop_count
             THEN Some([iterated EXCEPT !.start_time = timestamp])
             ELSE None
    ELSE Some([active EXCEPT !.start_time = timestamp])

\* a tick that lets an animation run one iteration more than loop_count
AnimationAfterTick_one_more(active, timestamp) ==
    IF timestamp - active.start_time >= active.animation.duration
    THEN LET iterated == [active EXCEPT !.current_iteration = @ + 1]
         IN  IF \/ active.animation.loop_count = -1
                \/ iterated.current_iteration <= active.animation.loop_count
             THEN Some([iterated EXCEPT !.start_time = timestamp])
             ELSE None
    ELSE Some(active)

\* one active animation after the tick: restarted, unchanged, or None (completed)
AnimationAfterTick(active, timestamp) ==
    IF timestamp - active.start_time >= active.animation.duration
    THEN LET iterated == [active EXCEPT !.current_iteration = @ + 1]
         IN  IF \/ active.animation.loop_count = -1
                \/ iterated.current_iteration < active.animation.loop_count
             THEN Some([iterated EXCEPT !.start_time = timestamp])
             ELSE None
    ELSE Some(active)

\* update_animations reporting only the animations that stay active
update_animations_kept_only(ac, timestamp) ==
    LET ids == DOMAIN ac.active_animations
        after == [ id \in ids |-> AnimationAfterTick(ac.active_animations[id], timestamp) ]
        kept == { id \in ids : IsSome(after[id]) }
    IN  [ ac      |-> [ac EXCEPT !.active_animations =
                                     [ id \in kept |-> Unwrap(after[id]) ]],
          changes |-> { AnimationChange(ac.active_animations[id], timestamp) : id \in kept } ]

\* AnimationController::update_animations
update_animations(ac, timestamp) ==
    LET ids == DOMAIN ac.active_animations
        after == [ id \in ids |-> AnimationAfterTick(ac.active_animations[id], timestamp) ]
        kept == { id \in ids : IsSome(after[id]) }
    IN  [ ac      |-> [ac EXCEPT !.active_animations =
                                     [ id \in kept |-> Unwrap(after[id]) ]],
          changes |-> { AnimationChange(ac.active_animations[id], timestamp) : id \in ids } ]

(***************************************************************************)
(* InteractionEvent                                                        *)
(*   [event_type, target_element, timestamp, mouse_data, touch_data,       *)
(*    keyboard_data, gesture_data, data]         (payloads are Options)    *)
(*   Position is [x, y]; a velocity is the rational vector                 *)
(*   (x / dt, y / dt) kept as [x, y, dt].                                  *)
(***************************************************************************)
Position(x, y) == [x |-> x, y |-> y]

\* (dx^2 + dy^2), the square of the distance the source takes the sqrt of
DistanceSquared(p, q) == (q.x - p.x) * (q.x - p.x) + (q.y - p.y) * (q.y - p.y)

ZeroVelocity == [x |-> 0, y |-> 0, dt |-> 1]

\* InteractionResponse::new (the response's own timestamp is not kept)
InteractionResponse(target_element, response_type, data) ==
    [ target_element |-> target_element,
      response_type  |-> response_type,
      data           |-> data ]

(***************************************************************************)
(* InteractionManager                                                      *)
(***************************************************************************)
\* InteractionManager::new
\* (events_per_second, a function of total_events and the clock alone, and
\* active_gestures, which no method touches, are not kept; the running
\* average_response_time is kept as the sum it is the mean of)
InteractionManagerNew ==
    [ interaction_states  |-> << >>,
      event_delegates     |-> << >>,
      touch_tracking      |-> << >>,
      mouse_state         |->
          [ position            |-> Position(0, 0),
            buttons             |-> 0,
            last_click_time     |-> 0,
            click_count         |-> 0,
            target_element      |-> None,
            dragging            |-> FALSE,
            drag_start_position |-> None ],
      keyboard_state      |->
          [ pressed_keys    |-> << >>,
            modifiers       |-> [ctrl |-> FALSE, shift |-> FALSE,
                                 alt |-> FALSE, meta |-> FALSE],
            focused_element |-> None ],
      performance_metrics |->
          [ total_events              |-> 0,
            response_time_sum         |-> 0,
            touch_points_processed    |-> 0,
            mouse_events_processed    |-> 0,
            keyboard_events_processed |-> 0 ] ]

\* set_interaction_state recording Pressed whatever state it is given
set_interaction_state_always_pressed(im, element_id, state_type, timestamp) ==
    [im EXCEPT !.interaction_states =
        MapInsert(@, element_id,
                  [ element_id  |-> element_id,
                    state_type  |-> "Pressed",
                    start_time  |-> timestamp,
                    last_update |-> timestamp ])]

\* InteractionManager::set_interaction_state
set_interaction_state(im, element_id, state_type, timestamp) ==
    [im EXCEPT !.interaction_states =
        MapInsert(@, element_id,
                  [ element_id  |-> element_id,
                    state_type  |-> state_type,
                    start_time  |-> timestamp,
                    last_update |-> timestamp ])]

\* InteractionManager::handle_mouse_event
handle_mouse_event(im, event) ==
    IF ~IsSome(event.mouse_data)
    THEN [im |-> im, responses |-> << >>]
    ELSE
    LET mouse_data == Unwrap(event.mouse_data)
        moved == [im EXCEPT !.mouse_state.position = mouse_data.position,
                            !.mouse_state.buttons = mouse_data.buttons]
        handled ==
            CASE event.event_type = "MouseDown" ->
                   LET targeted == [moved EXCEPT
                                      !.mouse_state.target_element = event.target_element]
                   IN  IF IsSome(event.target_element)
                       THEN [im |-> set_interaction_state(targeted,
                                        Unwrap(event.target_element), "Pressed",
                                        event.timestamp),
                             responses |-> << InteractionResponse(event.target_element,
                                                "StateChanged", [state |-> "pressed"]) >>]
                       ELSE [im |-> targeted, responses |-> << >>]
              [] event.event_type = "MouseUp" ->
                   LET target == moved.mouse_state.target_element
                       released == IF IsSome(target)
                                   THEN set_interaction_state(moved, Unwrap(target),
                                                              "Hover", event.timestamp)
                                   ELSE moved
                   IN  [im |-> [released EXCEPT !.mouse_state.target_element = None],
                        responses |->
                            IF IsSome(target)
                            THEN << InteractionResponse(target, "StateChanged",
                                                        [state |-> "hover"]) >>
                            ELSE << >>]
              [] event.event_type = "MouseMove" ->
                   LET start == moved.mouse_state.drag_start_position
                       starts == /\ moved.mouse_state.buttons > 0
                                 /\ ~moved.mouse_state.dragging
                                 /\ IsSome(start)
                                 \* distance > 5.0, the drag threshold
                                 /\ DistanceSquared(Unwrap(start), mouse_data.position) > 25
                       dragged == IF starts
                                  THEN [moved EXCEPT !.mouse_state.dragging = TRUE]
                                  ELSE moved
                   IN  [im |-> dragged,
                        responses |->
                            (IF starts
                             THEN << InteractionResponse(event.target_element, "DragStart",
                                                         [start_position |-> Unwrap(start)]) >>
                             ELSE << >>)
                            \o
                            (IF dragged.mouse_state.dragging
                             THEN << InteractionResponse(event.target_element, "Drag",
                                        [position |-> mouse_data.position,
                                         movement |-> mouse_data.movement]) >>
                             ELSE << >>)]
              [] OTHER -> [im |-> moved, responses |-> << >>]
    IN  [im |-> [handled.im EXCEPT !.performance_metrics.mouse_events_processed = @ + 1],
         responses |-> handled.responses]

\* the TouchStart loop over changed_touches, from touch i on
RECURSIVE TouchStartLoop(_, _, _, _)
TouchStartLoop(im, event, changed, i) ==
    IF i > Len(changed) THEN im
    ELSE LET touch == changed[i]
             tracker == [ touch_id         |-> touch.identifier,
                          start_position   |-> touch.position,
                          current_position |-> touch.position,
                          start_time       |-> event.timestamp,
                          last_update      |-> event.timestamp,
                          velocity         |-> ZeroVelocity,
                          target_element   |-> event.target_element ]
             tracked == [im EXCEPT !.touch_tracking =
                                       MapInsert(@, touch.identifier, tracker)]
             activated == IF IsSome(event.target_element)
                          THEN set_interaction_state(tracked, Unwrap(event.target_element),
                                                     "Active", event.timestamp)
                          ELSE tracked
         IN  TouchStartLoop(activated, event, changed, i + 1)

\* a TouchMove loop that starts a tracker for every changed touch
TouchMoveLoop_creating(im, event, changed, i) == TouchStartLoop(im, event, changed, i)

\* the TouchMove loop over changed_touches, from touch i on
RECURSIVE TouchMoveLoop(_, _, _, _)
TouchMoveLoop(im, event, changed, i) ==
    IF i > Len(changed) THEN im
    ELSE LET touch == changed[i]
             updated ==
                 IF touch.identifier \in DOMAIN im.touch_tracking
                 THEN LET tracker == im.touch_tracking[touch.identifier]
                          time_delta == event.timestamp - tracker.last_update
                          velocity ==
                              IF time_delta > 0
                              THEN [ x  |-> touch.position.x - tracker.current_position.x,
                                     y  |-> touch.position.y - tracker.current_position.y,
                                     dt |-> time_delta ]
                              ELSE tracker.velocity
                      IN  [im EXCEPT !.touch_tracking[touch.identifier] =
                              [tracker EXCEPT !.velocity = velocity,
                                              !.current_position = touch.position,
                                              !.last_update = event.timestamp]]
                 ELSE im
         IN  TouchMoveLoop(updated, event, changed, i + 1)

\* a TouchEnd loop that still counts a lift at exactly 10 units as a tap
RECURSIVE TouchEndLoop_tap_at_limit(_, _, _, _)
TouchEndLoop_tap_at_limit(acc, event, changed, i) ==
    IF i > Len(changed) THEN acc
    ELSE LET touch == changed[i]
             im == acc.im
             tracked == touch.identifier \in DOMAIN im.touch_tracking
             tracker == im.touch_tracking[touch.identifier]
             duration == event.timestamp - tracker.start_time
             tap == /\ tracked
                    /\ DistanceSquared(tracker.start_position, touch.position) <= 100
                    /\ duration < 300
             removed == IF tracked
                        THEN [im EXCEPT !.touch_tracking = MapRemove(@, touch.identifier)]
                        ELSE im
             idled == IF IsSome(event.target_element)
                      THEN set_interaction_state(removed, Unwrap(event.target_element),
                                                 "Idle", event.timestamp)
                      ELSE removed
         IN  TouchEndLoop_tap_at_limit(
                 [im |-> idled,
                  responses |-> acc.responses \o
                      (IF tap
                       THEN << InteractionResponse(event.target_element, "Tap",
                                   [position |-> touch.position, duration |-> duration]) >>
                       ELSE << >>)],
                 event, changed, i + 1)

\* the TouchEnd | TouchCancel loop over changed_touches, from touch i on
RECURSIVE TouchEndLoop(_, _, _, _)
TouchEndLoop(acc, event, changed, i) ==
    IF i > Len(changed) THEN acc
    ELSE LET touch == changed[i]
             im == acc.im
             tracked == touch.identifier \in DOMAIN im.touch_tracking
             tracker == im.touch_tracking[touch.identifier]
             duration == event.timestamp - tracker.start_time
             \* distance < 10.0 && duration < 300.0
             tap == /\ tracked
                    /\ DistanceSquared(tracker.start_position, touch.position) < 100
                    /\ duration < 300
             removed == IF tracked
                        THEN [im EXCEPT !.touch_tracking = MapRemove(@, touch.identifier)]
                        ELSE im
             idled == IF IsSome(event.target_element)
                      THEN set_interaction_state(removed, Unwrap(event.target_element),
                                                 "Idle", event.timestamp)
                      ELSE removed
         IN  TouchEndLoop(
                 [im |-> idled,
                  responses |-> acc.responses \o
                      (IF tap
                       THEN << InteractionResponse(event.target_element, "Tap",
                                   [position |-> touch.position, duration |-> duration]) >>
                       ELSE << >>)],
                 event, changed, i + 1)

\* InteractionManager::handle_touch_event
handle_touch_event(im, event) ==
    IF ~IsSome(event.touch_data)
    THEN [im |-> im, responses |-> << >>]
    ELSE
    LET touch_data == Unwrap(event.touch_data)
        changed == touch_data.changed_touches
        handled ==
            CASE event.event_type = "TouchStart" ->
                   [im |-> TouchStartLoop(im, event, changed, 1),
                    responses |-> << InteractionResponse(event.target_element, "TouchStart",
                                        [touch_count |-> Len(touch_data.touches)]) >>]
              [] event.event_type = "TouchMove" ->
                   [im |-> TouchMoveLoop(im, event, changed, 1),
                    responses |-> << InteractionResponse(event.target_element, "TouchMove",
                                        [touches |-> touch_data.touches]) >>]
              [] event.event_type \in {"TouchEnd", "TouchCancel"} ->
                   LET ended == TouchEndLoop([im |-> im, responses |-> << >>],
                                             event, changed, 1)
                   IN  [im |-> ended.im,
                        responses |-> Append(ended.responses,
                            InteractionResponse(event.target_element, "TouchEnd",
                                [remaining_touches |-> Len(touch_data.touches)]))]
              [] OTHER -> [im |-> im, responses |-> << >>]
    IN  [im |-> [handled.im EXCEPT
                    !.performance_metrics.touch_points_processed = @ + Len(changed)],
         responses |-> handled.responses]

\* modifier flags that are set when the key goes down and never cleared
UpdateModifiers_never_cleared(modifiers, key, value) ==
    CASE key = "Control" -> [modifiers EXCEPT !.ctrl = TRUE]
      [] key = "Shift"   -> [modifiers EXCEPT !.shift = TRUE]
      [] key = "Alt"     -> [modifiers EXCEPT !.alt = TRUE]
      [] key = "Meta"    -> [modifiers EXCEPT !.meta = TRUE]
      [] OTHER           -> modifiers

\* the modifier flags after `key` goes down (value TRUE) or up (value FALSE)
UpdateModifiers(modifiers, key, value) ==
    CASE key = "Control" -> [modifiers EXCEPT !.ctrl = value]
      [] key = "Shift"   -> [modifiers EXCEPT !.shift = value]
      [] key = "Alt"     -> [modifiers EXCEPT !.alt = value]
      [] key = "Meta"    -> [modifiers EXCEPT !.meta = value]
      [] OTHER           -> modifiers

\* a keyboard handler whose KeyUp clears the modifier flag and leaves the key
\* among the pressed keys
handle_keyboard_event_keeping_key(im, event) ==
    IF ~IsSome(event.keyboard_data)
    THEN [im |-> im, responses |-> << >>]
    ELSE
    LET key == Unwrap(event.keyboard_data).key
        handled ==
            CASE event.event_type = "KeyDown" ->
                   LET pressed == [im EXCEPT
                           !.keyboard_state.pressed_keys =
                               MapInsert(@, key, event.timestamp),
                           !.keyboard_state.modifiers = UpdateModifiers(@, key, TRUE)]
                   IN  [im |-> pressed,
                        responses |-> << InteractionResponse(event.target_element, "KeyDown",
                            [key |-> key,
                             modifiers |-> pressed.keyboard_state.modifiers]) >>]
              [] event.event_type = "KeyUp" ->
                   [im |-> [im EXCEPT
                               !.keyboard_state.modifiers = UpdateModifiers(@, key, FALSE)],
                    responses |-> << InteractionResponse(event.target_element, "KeyUp",
                                                         [key |-> key]) >>]
              [] event.event_type = "KeyPress" ->
                   [im |-> im,
                    responses |-> << InteractionResponse(event.target_element, "KeyPress",
                                                         [key |-> key]) >>]
              [] OTHER -> [im |-> im, responses |-> << >>]
    IN  [im |-> [handled.im EXCEPT
                    !.performance_metrics.keyboard_events_processed = @ + 1],
         responses |-> handled.responses]

\* InteractionManager::handle_keyboard_event
handle_keyboard_event(im, event) ==
    IF ~IsSome(event.keyboard_data)
    THEN [im |-> im, responses |-> << >>]
    ELSE
    LET key == Unwrap(event.keyboard_data).key
        handled ==
            CASE event.event_type = "KeyDown" ->
                   LET pressed == [im EXCEPT
                           !.keyboard_state.pressed_keys =
                               MapInsert(@, key, event.timestamp),
                           !.keyboard_state.modifiers = UpdateModifiers(@, key, TRUE)]
                   IN  [im |-> pressed,
                        responses |-> << InteractionResponse(event.target_element, "KeyDown",
                            [key |-> key,
                             modifiers |-> pressed.keyboard_state.modifiers]) >>]
              [] event.event_type = "KeyUp" ->
                   [im |-> [im EXCEPT
                               !.keyboard_state.pressed_keys = MapRemove(@, key),
                               !.keyboard_state.modifiers = UpdateModifiers(@, key, FALSE)],
                    responses |-> << InteractionResponse(event.target_element, "KeyUp",
                                                         [key |-> key]) >>]
              [] event.event_type = "KeyPress" ->
                   [im |-> im,
                    responses |-> << InteractionResponse(event.target_element, "KeyPress",
                                                         [key |-> key]) >>]
              [] OTHER -> [im |-> im, responses |-> << >>]
    IN  [im |-> [handled.im EXCEPT
                    !.performance_metrics.keyboard_events_processed = @ + 1],
         responses |-> handled.responses]

\* handle_click_event updating the click state without a response
handle_click_event_silent(im, event) ==
    IF ~IsSome(event.mouse_data)
    THEN [im |-> im, responses |-> << >>]
    ELSE [im |-> [im EXCEPT !.mouse_state.click_count = 1,
                            !.mouse_state.last_click_time = event.timestamp],
          responses |-> << >>]

\* a click handler that counts a click that carries no mouse data
handle_click_event_counting_bare(im, event) ==
    IF ~IsSome(event.mouse_data)
    THEN [im |-> [im EXCEPT !.mouse_state.click_count = @ + 1], responses |-> << >>]
    ELSE
    LET mouse_data == Unwrap(event.mouse_data)
    IN  CASE event.event_type = "Click" ->
               LET time_since_last_click ==
                       event.timestamp - im.mouse_state.last_click_time
                   clicked == [im EXCEPT
                       !.mouse_state.click_count =
                           IF time_since_last_click < 500 THEN @ + 1 ELSE 1,
                       !.mouse_state.last_click_time = event.timestamp]
               IN  [im |-> clicked,
                    responses |-> << InteractionResponse(event.target_element, "Click",
                        [position    |-> mouse_data.position,
                         button      |-> mouse_data.button,
                         click_count |-> clicked.mouse_state.click_count]) >>]
          [] event.event_type = "DoubleClick" ->
               [im |-> im,
                responses |-> << InteractionResponse(event.target_element, "DoubleClick",
                                    [position |-> mouse_data.position]) >>]
          [] OTHER -> [im |-> im, responses |-> << >>]

\* InteractionManager::handle_click_event
handle_click_event(im, event) ==
    IF ~IsSome(event.mouse_data)
    THEN [im |-> im, responses |-> << >>]
    ELSE
    LET mouse_data == Unwrap(event.mouse_data)
    IN  CASE event.event_type = "Click" ->
               LET time_since_last_click ==
                       event.timestamp - im.mouse_state.last_click_time
                   clicked == [im EXCEPT
                       !.mouse_state.click_count =
                           IF time_since_last_click < 500 THEN @ + 1 ELSE 1,
                       !.mouse_state.last_click_time = event.timestamp]
               IN  [im |-> clicked,
                    responses |-> << InteractionResponse(event.target_element, "Click",
                        [position    |-> mouse_data.position,
                         button      |-> mouse_data.button,
                         click_count |-> clicked.mouse_state.click_count]) >>]
          [] event.event_type = "DoubleClick" ->
               [im |-> im,
                responses |-> << InteractionResponse(event.target_element, "DoubleClick",
                                    [position |-> mouse_data.position]) >>]
          [] OTHER -> [im |-> im, responses |-> << >>]

\* InteractionManager::handle_gesture_event
handle_gesture_event(im, event) ==
    [im |-> im,
     responses |->
        IF IsSome(event.gesture_data)
        THEN << InteractionResponse(event.target_element, "Gesture",
                    [gesture_type |-> Unwrap(event.gesture_data).gesture_type]) >>
        ELSE << >>]

\* InteractionManager::handle_scroll_event
handle_scroll_event(im, event) ==
    [im |-> im,
     responses |-> << InteractionResponse(event.target_element, "Scroll", event.data) >>]

\* a focus handler whose Blur idles the event's own target instead of the
\* focused element
handle_focus_event_blur_own_target(im, event) ==
    LET handled ==
            CASE event.event_type = "Focus" ->
                   LET refocused == [im EXCEPT !.keyboard_state.focused_element =
                                                   event.target_element]
                   IN  IF IsSome(event.target_element)
                       THEN set_interaction_state(refocused, Unwrap(event.target_element),
                                                  "Focused", event.timestamp)
                       ELSE refocused
              [] event.event_type = "Blur" ->
                   LET idled == IF IsSome(event.target_element)
                                THEN set_interaction_state(im, Unwrap(event.target_element),
                                                           "Idle", event.timestamp)
                                ELSE im
                   IN  [idled EXCEPT !.keyboard_state.focused_element = None]
              [] OTHER -> im
    IN  [im |-> handled,
         responses |-> << InteractionResponse(event.target_element, "FocusChanged",
                             [focused |-> event.event_type = "Focus"]) >>]

\* InteractionManager::handle_focus_event
handle_focus_event(im, event) ==
    LET focused == im.keyboard_state.focused_element
        handled ==
            CASE event.event_type = "Focus" ->
                   LET refocused == [im EXCEPT !.keyboard_state.focused_element =
                                                   event.target_element]
                   IN  IF IsSome(event.target_element)
                       THEN set_interaction_state(refocused, Unwrap(event.target_element),
                                                  "Focused", event.timestamp)
                       ELSE refocused
              [] event.event_type = "Blur" ->
                   LET idled == IF IsSome(focused)
                                THEN set_interaction_state(im, Unwrap(focused), "Idle",
                                                           event.timestamp)
                                ELSE im
                   IN  [idled EXCEPT !.keyboard_state.focused_element = None]
              [] OTHER -> im
    IN  [im |-> handled,
         responses |-> << InteractionResponse(event.target_element, "FocusChanged",
                             [focused |-> event.event_type = "Focus"]) >>]

\* InteractionManager::handle_resize_event
handle_resize_event(im, event) ==
    [im |-> im, responses |-> << InteractionResponse(None, "Resize", event.data) >>]

\* a delegation that tells every delegate of the target, whatever kinds it
\* registered for
DelegateLoop_every_kind(delegates, target, event, i) ==
    [ j \in 1..Len(delegates) |->
        InteractionResponse(Some(delegates[j].element_id), "Delegated",
            [handler_id      |-> delegates[j].handler_id,
             original_target |-> target]) ]

\* InteractionManager::delegate_event, from delegate i of the target's list on
RECURSIVE DelegateLoop(_, _, _, _)
DelegateLoop(delegates, target, event, i) ==
    IF i > Len(delegates) THEN << >>
    ELSE (IF event.event_type \in delegates[i].event_types
          THEN << InteractionResponse(Some(delegates[i].element_id), "Delegated",
                      [handler_id      |-> delegates[i].handler_id,
                       original_target |-> target]) >>
          ELSE << >>)
         \o DelegateLoop(delegates, target, event, i + 1)

\* InteractionManager::delegate_event
delegate_event(im, target, event) ==
    IF target \in DOMAIN im.event_delegates
    THEN DelegateLoop(im.event_delegates[target], target, event, 1)
    ELSE << >>

\* InteractionManager::update_performance_metrics
\* average_response_time = (average * (n - 1) + processing_time) / n,
\* i.e. the sum of the processing times over n = total_events
update_performance_metrics(im, processing_time) ==
    [im EXCEPT !.performance_metrics.response_time_sum = @ + processing_time]

\* InteractionManager::add_event_delegate
add_event_delegate(im, target, delegate) ==
    [im EXCEPT !.event_delegates =
        MapInsert(@, target,
                  IF target \in DOMAIN @ THEN Append(@[target], delegate)
                                         ELSE << delegate >>)]

\* a removal that drops only the first delegate with the handler id
remove_event_delegate_first_only(im, target, handler_id) ==
    IF /\ target \in DOMAIN im.event_delegates
       /\ \E i \in 1..Len(im.event_delegates[target]) :
              im.event_delegates[target][i].handler_id = handler_id
    THEN LET delegates == im.event_delegates[target]
             first == CHOOSE i \in 1..Len(delegates) :
                          /\ delegates[i].handler_id = handler_id
                          /\ \A j \in 1..(i - 1) : delegates[j].handler_id # handler_id
         IN  [im EXCEPT !.event_delegates[target] =
                 SubSeq(delegates, 1, first - 1)
                     \o SubSeq(delegates, first + 1, Len(delegates))]
    ELSE im

\* InteractionManager::remove_event_delegate
remove_event_delegate(im, target, handler_id) ==
    IF target \in DOMAIN im.event_delegates
    THEN LET KeepDelegate(d) == d.handler_id # handler_id
         IN  [im EXCEPT !.event_delegates[target] = SelectSeq(@, KeepDelegate)]
    ELSE im

\* the per-kind dispatch of InteractionManager::process_event
DispatchEvent(im, event) ==
    CASE event.event_type \in {"MouseDown", "MouseUp", "MouseMove"} ->
           handle_mouse_event(im, event)
      [] event.event_type \in {"Click", "DoubleClick"} ->
           handle_click_event(im, event)
      [] event.event_type \in {"TouchStart", "TouchMove", "TouchEnd", "TouchCancel"} ->
           handle_touch_event(im, event)
      [] event.event_type \in {"KeyDown", "KeyUp", "KeyPress"} ->
           handle_keyboard_event(im, event)
      [] event.event_type \in {"Tap", "DoubleTap", "LongPress", "Pinch", "Rotate",
                               "Swipe", "Pan"} ->
           handle_gesture_event(im, event)
      [] event.event_type \in {"Scroll", "Wheel"} ->
           handle_scroll_event(im, event)
      [] event.event_type \in {"Focus", "Blur"} ->
           handle_focus_event(im, event)
      [] event.event_type = "Resize" ->
           handle_resize_event(im, event)
      [] OTHER ->
           [im |-> im,
            responses |-> << InteractionResponse(event.target_element, "EventProcessed",
                                                 << >>) >>]

\* a manager that counts only the events it answers
process_event_counting_answered(im, event, processing_time) ==
    LET handled == DispatchEvent(im, event)
        counted == IF Len(handled.responses) > 0
                   THEN [handled.im EXCEPT !.performance_metrics.total_events = @ + 1]
                   ELSE handled.im
        measured == update_performance_metrics(counted, processing_time)
    IN  [im |-> measured,
         responses |-> handled.responses \o
             (IF IsSome(event.target_element)
              THEN delegate_event(measured, Unwrap(event.target_element), event)
              ELSE << >>)]

\* InteractionManager::process_event; processing_time is the clock time the
\* dispatch took (get_current_timestamp() - start_time)
process_event(im, event, processing_time) ==
    LET counted == [im EXCEPT !.performance_metrics.total_events = @ + 1]
        handled == DispatchEvent(counted, event)
        measured == update_performance_metrics(handled.im, processing_time)
    IN  [im |-> measured,
         responses |-> handled.responses \o
             (IF IsSome(event.target_element)
              THEN delegate_event(measured, Unwrap(event.target_element), event)
              ELSE << >>)]

(***************************************************************************)
(* Exact arithmetic for the f64 quantities the recognizer compares         *)
(*   a rational is [n, d] with d > 0 in lowest terms                       *)
(***************************************************************************)
Abs(a) == IF a < 0 THEN 0 - a ELSE a

RECURSIVE GCD(_, _)
GCD(a, b) == IF b = 0 THEN a ELSE GCD(b, a % b)

Rat(n, d) ==
    LET g == GCD(Abs(n), Abs(d))
        sign == IF d < 0 THEN 0 - 1 ELSE 1
    IN  [n |-> sign * (n \div g), d |-> sign * (d \div g)]

RatInt(a) == [n |-> a, d |-> 1]
RatAdd(p, q) == Rat(p.n * q.d + q.n * p.d, p.d * q.d)
RatSub(p, q) == Rat(p.n * q.d - q.n * p.d, p.d * q.d)
RatMul(p, q) == Rat(p.n * q.n, p.d * q.d)
RatDivInt(p, k) == Rat(p.n, p.d * k)
RatLess(p, q) == p.n * q.d < q.n * p.d
RatLeq(p, q) == p.n * q.d <= q.n * p.d
RatMax(p, q) == IF RatLess(p, q) THEN q ELSE p
RatMin(p, q) == IF RatLess(q, p) THEN q ELSE p

\* f64::sqrt of a perfect square (the touch positions of the model are chosen
\* so that every distance the recognizer takes is a whole number)
Sqrt(sq) == CHOOSE r \in 0..sq : r * r = sq

\* f64::INFINITY as a bound, and a finite bound
Infinity == << >>
Finite(x) == << x >>
AtMost(value, bound) == bound = Infinity \/ value <= Unwrap(bound)

(***************************************************************************)
(* GestureRecognizer                                                       *)
(*   active_recognizers : key -> [gesture_type, start_time, samples]       *)
(*   gesture_history    : sequence of GestureEvent                         *)
(* gesture_configs is a HashMap: the order in which check_gesture_-        *)
(* completion meets the configs is unspecified, so the config that wins is *)
(* any of the matching ones.                                               *)
(***************************************************************************)
GestureTypes == { "Tap", "DoubleTap", "LongPress", "Pinch", "Rotate", "Swipe", "Pan" }

\* GestureRecognizer::init_default_configs
GestureConfig(min_distance, max_distance, min_duration, max_duration, min_velocity, max_velocity) ==
    [ min_distance |-> min_distance, max_distance |-> max_distance,
      min_duration |-> min_duration, max_duration |-> max_duration,
      min_velocity |-> min_velocity, max_velocity |-> max_velocity ]

gesture_configs ==
    [ Tap       |-> GestureConfig(0, Finite(10), 50, Finite(300), 0, Finite(100)),
      DoubleTap |-> GestureConfig(0, Finite(20), 50, Finite(600), 0, Finite(150)),
      LongPress |-> GestureConfig(0, Finite(15), 500, Infinity, 0, Finite(50)),
      Swipe     |-> GestureConfig(50, Infinity, 50, Finite(500), 100, Infinity),
      Pan       |-> GestureConfig(10, Infinity, 100, Infinity, 0, Infinity),
      Pinch     |-> GestureConfig(0, Infinity, 100, Infinity, 0, Infinity),
      Rotate    |-> GestureConfig(0, Infinity, 100, Infinity, 0, Infinity) ]

\* GestureRecognizer::new
GestureRecognizerNew == [ active_recognizers |-> << >>, gesture_history |-> << >> ]

\* format!("single_{}", touch.identifier) and "multi_touch"
SingleKey(identifier) == << "single", identifier >>
MultiTouchKey == << "multi_touch", 0 >>

GestureSample(timestamp, position, velocity) ==
    [ timestamp |-> timestamp, position |-> position, velocity |-> velocity ]

\* GestureRecognizer::calculate_velocity
calculate_velocity(samples, current_pos, timestamp) ==
    IF Len(samples) > 0 /\ timestamp - samples[Len(samples)].timestamp > 0
    THEN [ x  |-> current_pos.x - samples[Len(samples)].position.x,
           y  |-> current_pos.y - samples[Len(samples)].position.y,
           dt |-> timestamp - samples[Len(samples)].timestamp ]
    ELSE ZeroVelocity

\* the indices i >= 2 whose sample is later than its predecessor
TimedSegments(samples) ==
    { i \in 2..Len(samples) : samples[i].timestamp - samples[i-1].timestamp > 0 }

RECURSIVE RatSum(_, _)
RatSum(f, indices) ==
    IF indices = {} THEN RatInt(0)
    ELSE LET i == CHOOSE j \in indices : TRUE
         IN  RatAdd(f[i], RatSum(f, indices \ {i}))

\* GestureRecognizer::calculate_average_velocity
calculate_average_velocity(samples) ==
    LET timed == TimedSegments(samples)
        vx == [ i \in timed |-> Rat(samples[i].position.x - samples[i-1].position.x,
                                    samples[i].timestamp - samples[i-1].timestamp) ]
        vy == [ i \in timed |-> Rat(samples[i].position.y - samples[i-1].position.y,
                                    samples[i].timestamp - samples[i-1].timestamp) ]
    IN  IF Len(samples) < 2 \/ timed = {}
        THEN [ x |-> RatInt(0), y |-> RatInt(0) ]
        ELSE [ x |-> RatDivInt(RatSum(vx, timed), Cardinality(timed)),
               y |-> RatDivInt(RatSum(vy, timed), Cardinality(timed)) ]

\* GestureRecognizer::calculate_velocity_variance, squared:
\* (variance.sqrt() / mean.max(1.0))^2 = variance / mean.max(1.0)^2
velocity_variance_squared(samples) ==
    LET timed == TimedSegments(samples)
        speed == [ i \in timed |->
                     Rat(Sqrt(DistanceSquared(samples[i-1].position, samples[i].position)),
                         samples[i].timestamp - samples[i-1].timestamp) ]
        mean == RatDivInt(RatSum(speed, timed), Cardinality(timed))
        deviation == [ i \in timed |-> RatMul(RatSub(speed[i], mean),
                                              RatSub(speed[i], mean)) ]
        variance == RatDivInt(RatSum(deviation, timed), Cardinality(timed))
        floor == RatMax(mean, RatInt(1))
    IN  IF Len(samples) < 3 \/ timed = {}
        THEN RatInt(0)
        ELSE Rat(variance.n * floor.d * floor.d, variance.d * floor.n * floor.n)

\* GestureRecognizer::calculate_confidence.  confidence = 1 - min(v, 1) with
\* v = calculate_velocity_variance, kept as (1 - confidence)^2 = min(v^2, 1)
calculate_confidence(samples) ==
    [ deficit_squared |->
        IF Len(samples) > 2
        THEN RatMin(velocity_variance_squared(samples), RatInt(1))
        ELSE RatInt(0) ]

\* confidence > num / den   (0 <= num <= den)
ConfidenceAbove(confidence, num, den) ==
    RatLess(confidence.deficit_squared, Rat((den - num) * (den - num), den * den))

\* GestureRecognizer::angle_to_direction of calculate_angle(first, last):
\* round(((angle + 360) % 360) / 90) % 4 with angle = atan2(dy, dx) in degrees
angle_to_direction(dx, dy) ==
    CASE dx = 0 /\ dy = 0                       -> 0
      [] dx > 0 /\ 0 - dx <= dy /\ dy < dx      -> 0
      [] dy > 0 /\ 0 - dy < dx /\ dx <= dy      -> 1
      [] dx < 0 /\ dx < dy /\ dy <= 0 - dx      -> 2
      [] OTHER                                  -> 3

\* GestureRecognizer::calculate_total_path_distance
RECURSIVE calculate_total_path_distance(_, _)
calculate_total_path_distance(samples, i) ==
    IF i > Len(samples) THEN 0
    ELSE Sqrt(DistanceSquared(samples[i-1].position, samples[i].position))
         + calculate_total_path_distance(samples, i + 1)

\* GestureRecognizer::extract_gesture_properties
extract_gesture_properties(samples, gesture_type) ==
    CASE gesture_type = "Swipe" ->
           LET dx == samples[Len(samples)].position.x - samples[1].position.x
               dy == samples[Len(samples)].position.y - samples[1].position.y
           IN  [ angle |-> [dx |-> dx, dy |-> dy],
                 direction |-> angle_to_direction(dx, dy) ]
      [] gesture_type = "Pan" ->
           [ total_distance |-> calculate_total_path_distance(samples, 2) ]
      [] OTHER -> << >>

\* GestureRecognizer::matches_gesture_config
matches_gesture_config(config, distance_squared, duration, velocity) ==
    LET speed_squared == RatAdd(RatMul(velocity.x, velocity.x),
                                RatMul(velocity.y, velocity.y))
    IN  /\ distance_squared >= config.min_distance * config.min_distance
        /\ \/ config.max_distance = Infinity
           \/ distance_squared <= Unwrap(config.max_distance) * Unwrap(config.max_distance)
        /\ duration >= config.min_duration
        /\ AtMost(duration, config.max_duration)
        /\ RatLeq(RatInt(config.min_velocity * config.min_velocity), speed_squared)
        /\ \/ config.max_velocity = Infinity
           \/ RatLeq(speed_squared,
                     RatInt(Unwrap(config.max_velocity) * Unwrap(config.max_velocity)))

\* the gesture kinds whose config admits the recognition
MatchingConfigs(recognition, timestamp) ==
    LET samples == recognition.samples
        distance_squared == DistanceSquared(samples[1].position,
                                            samples[Len(samples)].position)
        velocity == calculate_average_velocity(samples)
    IN  { g \in GestureTypes :
            matches_gesture_config(gesture_configs[g], distance_squared,
                                   timestamp - recognition.start_time, velocity) }

\* GestureRecognizer::check_gesture_completion: the possible results, one for
\* each config the iteration over gesture_configs may meet first
check_gesture_completion(recognition, timestamp) ==
    LET samples == recognition.samples
        matching == MatchingConfigs(recognition, timestamp)
    IN  IF Len(samples) < 2 \/ matching = {}
        THEN { None }
        ELSE { Some([ gesture_type   |-> g,
                      confidence     |-> calculate_confidence(samples),
                      start_position |-> samples[1].position,
                      end_position   |-> samples[Len(samples)].position,
                      duration       |-> timestamp - recognition.start_time,
                      velocity       |-> calculate_average_velocity(samples),
                      properties     |-> extract_gesture_properties(samples, g),
                      timestamp      |-> timestamp ]) : g \in matching }

\* GestureRecognizer::process_single_touch: the possible outcomes
\* [gr, gestures], one for each result of check_gesture_completion
process_single_touch(gr, touch, timestamp) ==
    LET recognition_id == SingleKey(touch.identifier)
    IN  IF recognition_id \in DOMAIN gr.active_recognizers
        THEN LET old == gr.active_recognizers[recognition_id]
                 recognition ==
                     [ old EXCEPT !.samples =
                         Append(@, GestureSample(timestamp, touch.position,
                             calculate_velocity(old.samples, touch.position, timestamp))) ]
             IN  { IF IsSome(completed)
                   THEN [ gr |-> [ gr EXCEPT !.active_recognizers =
                                       MapRemove(@, recognition_id) ],
                          gestures |-> << Unwrap(completed) >> ]
                   ELSE [ gr |-> [ gr EXCEPT !.active_recognizers =
                                       MapInsert(@, recognition_id, recognition) ],
                          gestures |-> << >> ]
                   : completed \in check_gesture_completion(recognition, timestamp) }
        ELSE { [ gr |-> [ gr EXCEPT !.active_recognizers =
                     MapInsert(@, recognition_id,
                         [ gesture_type |-> "Tap",
                           start_time   |-> timestamp,
                           samples      |-> << GestureSample(timestamp, touch.position,
                                                             ZeroVelocity) >> ]) ],
                 gestures |-> << >> ] }

\* (scale_change - 1.0).abs() > 0.1 with scale_change = distance / 100.0
\* (extract_distance_from_sample is the constant 100.0); in f64 the test holds
\* at distance 110 (110.0 / 100.0 - 1.0 = 0.10000000000000009) and fails at 90
ScaleChanged(distance_squared) ==
    distance_squared >= 110 * 110 \/ distance_squared < 90 * 90

\* GestureRecognizer::process_multi_touch (touch coordinates are even in the
\* model, so the centre is exact)
process_multi_touch(gr, touches, timestamp) ==
    LET recognition_id == MultiTouchKey
        distance_squared == DistanceSquared(touches[1].position, touches[2].position)
        center == Position((touches[1].position.x + touches[2].position.x) \div 2,
                           (touches[1].position.y + touches[2].position.y) \div 2)
    IN  IF Len(touches) # 2
        THEN [ gr |-> gr, gestures |-> << >> ]
        ELSE IF recognition_id \in DOMAIN gr.active_recognizers
        THEN LET recognition == gr.active_recognizers[recognition_id]
             IN  [ gr |-> [ gr EXCEPT !.active_recognizers[recognition_id].samples =
                                Append(@, GestureSample(timestamp, center, ZeroVelocity)) ],
                   gestures |->
                       IF ScaleChanged(distance_squared)
                       THEN << [ gesture_type   |-> "Pinch",
                                 confidence     |-> [ deficit_squared |-> Rat(1, 100) ],
                                 start_position |-> recognition.samples[1].position,
                                 end_position   |-> center,
                                 duration       |-> timestamp - recognition.start_time,
                                 velocity       |-> [ x |-> RatInt(0), y |-> RatInt(0) ],
                                 properties     |-> [ scale_squared |-> Rat(distance_squared, 100 * 100),
                                                      distance_squared |-> distance_squared ],
                                 timestamp      |-> timestamp ] >>
                       ELSE << >> ]
        ELSE [ gr |-> [ gr EXCEPT !.active_recognizers =
                   MapInsert(@, recognition_id,
                       [ gesture_type |-> "Pinch",
                         start_time   |-> timestamp,
                         samples      |-> << GestureSample(timestamp, center,
                                                           ZeroVelocity) >> ]) ],
               gestures |-> << >> ]

\* the most entries process_touch_input keeps in gesture_history
GestureHistoryLimit == 100

\* a history update that refuses the new gesture once the history is full
RECURSIVE PushHistory_dropping_newest(_, _, _)
PushHistory_dropping_newest(history, gestures, i) ==
    IF i > Len(gestures) THEN history
    ELSE LET pushed == Append(history, gestures[i])
         IN  PushHistory_dropping_newest(
                 IF Len(pushed) > GestureHistoryLimit THEN history ELSE pushed,
                 gestures, i + 1)

\* the gesture_history update of process_touch_input: push, then drop the
\* oldest entry while more than GestureHistoryLimit are kept
RECURSIVE PushHistory(_, _, _)
PushHistory(history, gestures, i) ==
    IF i > Len(gestures) THEN history
    ELSE LET pushed == Append(history, gestures[i])
         IN  PushHistory(IF Len(pushed) > GestureHistoryLimit THEN Tail(pushed) ELSE pushed,
                         gestures, i + 1)

\* GestureRecognizer::process_touch_input: the possible outcomes [gr, gestures]
process_touch_input(gr, touch_data, timestamp) ==
    LET detected ==
            IF Len(touch_data.touches) = 1
            THEN process_single_touch(gr, touch_data.touches[1], timestamp)
            ELSE IF Len(touch_data.touches) >= 2
            THEN { process_multi_touch(gr, touch_data.touches, timestamp) }
            ELSE { [ gr |-> gr, gestures |-> << >> ] }
    IN  { [ gr |-> [ o.gr EXCEPT !.gesture_history = PushHistory(@, o.gestures, 1) ],
            gestures |-> o.gestures ] : o \in detected }

\* GestureRecognizer::clear_completed_recognitions
clear_completed_recognitions(gr, current_time) ==
    LET kept == { k \in DOMAIN gr.active_recognizers :
                    current_time - gr.active_recognizers[k].start_time < 1000 }
    IN  [ gr EXCEPT !.active_recognizers = [ k \in kept |-> @[k] ] ]

(***************************************************************************)
(* EventProcessor (the legacy processor run after the InteractionManager)  *)
(*   an outcome is [doc, changes, code]; code # "Ok" is the Err returned   *)
(*   a change is [kind, target]                                            *)
(***************************************************************************)
KnownHandlers ==
    { "toggle_visibility", "change_color", "update_text", "trigger_animation",
      "navigate_to" }

ElementUpdate(element_id) == [ kind |-> "Update", target |-> element_id ]

\* EventProcessor::execute_event_handler
execute_event_handler(doc, handler) ==
    CASE handler.handler_id = "toggle_visibility" ->
           IF /\ "target" \in DOMAIN handler.parameters
              /\ handler.parameters["target"] \in DOMAIN doc.render_tree.nodes
           THEN [ doc |-> [ doc EXCEPT
                      !.render_tree.nodes[handler.parameters["target"]].visible = ~@ ],
                  changes |-> << ElementUpdate(handler.parameters["target"]) >>,
                  code |-> "Ok" ]
           ELSE [ doc |-> doc, changes |-> << >>, code |-> "Ok" ]
      [] handler.handler_id \in {"change_color", "update_text"} ->
           [ doc |-> doc,
             changes |-> IF "target" \in DOMAIN handler.parameters
                         THEN << ElementUpdate(handler.parameters["target"]) >>
                         ELSE << >>,
             code |-> "Ok" ]
      [] handler.handler_id = "trigger_animation" ->
           [ doc |-> doc,
             changes |->
                 IF /\ "animation_id" \in DOMAIN handler.parameters
                    /\ \E i \in 1..Len(doc.animations) :
                          doc.animations[i].id = handler.parameters["animation_id"]
                 THEN << [ kind |-> "AnimationUpdate",
                           target |-> handler.parameters["animation_id"] ] >>
                 ELSE << >>,
             code |-> "Ok" ]
      [] handler.handler_id = "navigate_to" ->
           [ doc |-> doc,
             changes |-> IF "url" \in DOMAIN handler.parameters
                         THEN << [ kind |-> "Update", target |-> "navigation" ] >>
                         ELSE << >>,
             code |-> "Ok" ]
      [] OTHER -> [ doc |-> doc, changes |-> << >>, code |-> "UNKNOWN_HANDLER" ]

\* the loop over element.event_handlers in handle_click / handle_hover, from
\* handler i on; `?` leaves the loop at the first Err
RECURSIVE HandlerLoop(_, _, _, _)
HandlerLoop(acc, handlers, kind, i) ==
    IF i > Len(handlers) \/ acc.code # "Ok" THEN acc
    ELSE IF handlers[i].event_type # kind
    THEN HandlerLoop(acc, handlers, kind, i + 1)
    ELSE LET executed == execute_event_handler(acc.doc, handlers[i])
         IN  HandlerLoop([ doc     |-> executed.doc,
                           changes |-> acc.changes \o executed.changes,
                           code    |-> executed.code ],
                         handlers, kind, i + 1)

\* EventProcessor::handle_click
handle_click(doc, target_element) ==
    LET element == get_element(doc, target_element)
        handled == HandlerLoop([ doc |-> doc, changes |-> << >>, code |-> "Ok" ],
                               Unwrap(element).event_handlers, "click", 1)
    IN  IF ~IsSome(element)
        THEN [ doc |-> doc, changes |-> << >>, code |-> "Ok" ]
        ELSE IF handled.code # "Ok" THEN handled
        ELSE [ handled EXCEPT !.changes =
                   @ \o << ElementUpdate(target_element), ElementUpdate(target_element) >> ]

\* EventProcessor::handle_hover
handle_hover(doc, target_element) ==
    LET element == get_element(doc, target_element)
        handled == HandlerLoop([ doc |-> doc, changes |-> << >>, code |-> "Ok" ],
                               Unwrap(element).event_handlers, "hover", 1)
    IN  IF ~IsSome(element)
        THEN [ doc |-> doc, changes |-> << >>, code |-> "Ok" ]
        ELSE IF handled.code # "Ok" THEN handled
        ELSE [ handled EXCEPT !.changes = @ \o << ElementUpdate(target_element) >> ]

\* EventProcessor::handle_data_update (data_sources is empty, so a well-formed
\* update finds no data source and changes nothing)
handle_data_update(doc, event) ==
    IF "data_source_id" \notin DOMAIN event.data \/ "data" \notin DOMAIN event.data
    THEN [ doc |-> doc, changes |-> << >>, code |-> "INVALID_DATA_UPDATE" ]
    ELSE [ doc |-> doc, changes |-> << >>, code |-> "Ok" ]

\* EventProcessor::process_event
legacy_process_event(doc, event) ==
    CASE event.event_type = "Click" /\ IsSome(event.target_element) ->
           handle_click(doc, Unwrap(event.target_element))
      [] event.event_type = "Hover" /\ IsSome(event.target_element) ->
           handle_hover(doc, Unwrap(event.target_element))
      [] event.event_type = "DataUpdate" ->
           handle_data_update(doc, event)
      [] OTHER -> [ doc |-> doc, changes |-> << >>, code |-> "Ok" ]

(***************************************************************************)
(* ResponsiveAdapter                                                       *)
(*   device_info, interaction_settings, performance_profile and            *)
(*   adaptive_thresholds; the fractional settings are exact rationals      *)
(***************************************************************************)
DeviceTypes == { "Desktop", "Tablet", "Mobile", "TV", "Watch", "Unknown" }

Size(width, height) == [ width |-> width, height |-> height ]

\* DeviceInfo (the fields the adapter reads or writes)
DeviceInfo(device_type, screen_size, pixel_density, has_force_touch) ==
    [ device_type |-> device_type, screen_size |-> screen_size,
      pixel_density |-> pixel_density, has_force_touch |-> has_force_touch ]

\* ResponsiveAdapter::new: the Default of each part
ResponsiveAdapterNew ==
    [ device_info |-> DeviceInfo("Desktop", Size(1920, 1080), 1, FALSE),
      interaction_settings |->
          [ touch_target_size |-> 44, tap_timeout |-> 300,
            double_tap_timeout |-> 500, long_press_timeout |-> 500,
            drag_threshold |-> 10, scroll_sensitivity |-> RatInt(1),
            gesture_sensitivity |-> RatInt(1), hover_delay |-> 200 ],
      performance_profile |->
          [ target_fps |-> 60, max_event_frequency |-> 120,
            throttle_threshold |-> 100, batch_events |-> FALSE,
            use_passive_listeners |-> FALSE, debounce_scroll |-> FALSE,
            optimize_animations |-> FALSE ],
      adaptive_thresholds |->
          [ min_touch_target |-> RatInt(32), max_touch_target |-> RatInt(64),
            min_drag_distance |-> RatInt(5), max_drag_distance |-> RatInt(50),
            velocity_scaling |-> RatInt(1), pressure_sensitivity |-> 1 ] ]

\* ResponsiveAdapter::adapt_interaction_settings
adapt_interaction_settings(ra) ==
    CASE ra.device_info.device_type = "Mobile" ->
           [ ra EXCEPT !.interaction_settings =
               [ touch_target_size |-> 44, tap_timeout |-> 300,
                 double_tap_timeout |-> 500, long_press_timeout |-> 500,
                 drag_threshold |-> 10, scroll_sensitivity |-> RatInt(1),
                 gesture_sensitivity |-> RatInt(1), hover_delay |-> 0 ] ]
      [] ra.device_info.device_type = "Tablet" ->
           [ ra EXCEPT !.interaction_settings =
               [ touch_target_size |-> 48, tap_timeout |-> 250,
                 double_tap_timeout |-> 400, long_press_timeout |-> 600,
                 drag_threshold |-> 8, scroll_sensitivity |-> Rat(8, 10),
                 gesture_sensitivity |-> Rat(12, 10), hover_delay |-> 100 ] ]
      [] ra.device_info.device_type = "Desktop" ->
           [ ra EXCEPT !.interaction_settings =
               [ touch_target_size |-> 32, tap_timeout |-> 200,
                 double_tap_timeout |-> 300, long_press_timeout |-> 800,
                 drag_threshold |-> 5, scroll_sensitivity |-> Rat(6, 10),
                 gesture_sensitivity |-> Rat(8, 10), hover_delay |-> 200 ] ]
      [] OTHER -> ra

\* ResponsiveAdapter::adapt_performance_profile
adapt_performance_profile(ra) ==
    CASE ra.device_info.device_type = "Mobile" ->
           [ ra EXCEPT !.performance_profile =
               [ target_fps |-> 60, max_event_frequency |-> 120,
                 throttle_threshold |-> 100, batch_events |-> TRUE,
                 use_passive_listeners |-> TRUE, debounce_scroll |-> TRUE,
                 optimize_animations |-> TRUE ] ]
      [] ra.device_info.device_type = "Tablet" ->
           [ ra EXCEPT !.performance_profile =
               [ target_fps |-> 60, max_event_frequency |-> 144,
                 throttle_threshold |-> 80, batch_events |-> TRUE,
                 use_passive_listeners |-> TRUE, debounce_scroll |-> FALSE,
                 optimize_animations |-> FALSE ] ]
      [] ra.device_info.device_type = "Desktop" ->
           [ ra EXCEPT !.performance_profile =
               [ target_fps |-> 120, max_event_frequency |-> 240,
                 throttle_threshold |-> 60, batch_events |-> FALSE,
                 use_passive_listeners |-> FALSE, debounce_scroll |-> FALSE,
                 optimize_animations |-> FALSE ] ]
      [] OTHER -> ra

\* ResponsiveAdapter::adapt_thresholds
adapt_thresholds(ra) ==
    LET pixel_density == ra.device_info.pixel_density
        size == ra.interaction_settings.touch_target_size
        drag == ra.interaction_settings.drag_threshold
    IN  [ ra EXCEPT !.adaptive_thresholds =
            [ min_touch_target  |-> Rat(size * 8 * pixel_density, 10),
              max_touch_target  |-> Rat(size * 15 * pixel_density, 10),
              min_drag_distance |-> RatInt(drag * pixel_density),
              max_drag_distance |-> RatInt(drag * 10 * pixel_density),
              velocity_scaling  |->
                  CASE ra.device_info.device_type = "Mobile"  -> Rat(12, 10)
                    [] ra.device_info.device_type = "Tablet"  -> RatInt(1)
                    [] ra.device_info.device_type = "Desktop" -> Rat(8, 10)
                    [] OTHER -> RatInt(1),
              pressure_sensitivity |->
                  IF ra.device_info.has_force_touch THEN 1 ELSE 0 ] ]

\* a device detection that keeps a TV, Watch or Unknown device type it was
\* told of
initialize_device_detection_keeping_told(ra, viewport) ==
    LET diagonal_squared == viewport.width * viewport.width
                                + viewport.height * viewport.height
        device_type == IF ra.device_info.device_type \in { "TV", "Watch", "Unknown" }
                       THEN ra.device_info.device_type
                       ELSE IF diagonal_squared < 600 * 600 THEN "Mobile"
                       ELSE IF diagonal_squared < 1200 * 1200 THEN "Tablet"
                       ELSE "Desktop"
        detected == [ ra EXCEPT
                        !.device_info.screen_size = Size(viewport.width, viewport.height),
                        !.device_info.device_type = device_type ]
    IN  adapt_thresholds(adapt_performance_profile(adapt_interaction_settings(detected)))

\* ResponsiveAdapter::initialize_device_detection.  screen_diagonal is
\* sqrt(width^2 + height^2); for whole widths and heights it is below 600
\* (1200) exactly when the sum of squares is below 600^2 (1200^2)
initialize_device_detection(ra, viewport) ==
    LET diagonal_squared == viewport.width * viewport.width
                                + viewport.height * viewport.height
        device_type == IF diagonal_squared < 600 * 600 THEN "Mobile"
                       ELSE IF diagonal_squared < 1200 * 1200 THEN "Tablet"
                       ELSE "Desktop"
        detected == [ ra EXCEPT
                        !.device_info.screen_size = Size(viewport.width, viewport.height),
                        !.device_info.device_type = device_type ]
    IN  adapt_thresholds(adapt_performance_profile(adapt_interaction_settings(detected)))

\* ResponsiveAdapter::update_device_info
update_device_info(ra, device_info) ==
    adapt_thresholds(adapt_performance_profile(adapt_interaction_settings(
        [ ra EXCEPT !.device_info = device_info ])))

\* ResponsiveAdapter::adapt_event.  The events of the model carry no radius,
\* force, scale, movement, wheel delta or scroll delta, so what is left of the
\* adaptation is apply_performance_optimizations, which adds three entries to
\* event.data.
adapt_event(ra, event) ==
    [ event EXCEPT !.data =
        MapInsert(MapInsert(MapInsert(@,
            "throttle_threshold", Rat(1000, ra.performance_profile.max_event_frequency)),
            "batch_events", ra.performance_profile.batch_events),
            "use_passive", ra.performance_profile.use_passive_listeners) ]

(***************************************************************************)
(* EditorEngine (editor-engine crate)                                      *)
(*   state.document.elements : sequence of [id, properties]                *)
(*   state.selection         : [selected_elements]                         *)
(*   state.history           : [operations, current_index, max_operations] *)
(* An id n stands for the string "element_n" (elements) or "op_n"          *)
(* (operations).  A function returns the state and the EditorResult's      *)
(* message and data.                                                       *)
(***************************************************************************)
\* EditorState::default
EditorStateDefault ==
    [ document  |-> [ elements |-> << >> ],
      selection |-> [ selected_elements |-> << >> ],
      history   |-> [ operations |-> << >>, current_index |-> 0,
                      max_operations |-> EditMaxOperations ] ]

\* an add_to_history that keeps the operations after current_index
add_to_history_keeping_redo(state, operation_type, data, now) ==
    LET history == state.history
        operation == [ id |-> Len(history.operations), operation_type |-> operation_type,
                       timestamp |-> now, data |-> data ]
        pushed == Append(history.operations, operation)
    IN  [ state EXCEPT !.history =
            IF Len(pushed) > history.max_operations
            THEN [ history EXCEPT !.operations = Tail(pushed),
                                  !.current_index = Len(pushed) - 1 ]
            ELSE [ history EXCEPT !.operations = pushed,
                                  !.current_index = Len(pushed) ] ]

\* EditorEngine::add_to_history
add_to_history(state, operation_type, data, now) ==
    LET history == state.history
        operation == [ id |-> Len(history.operations), operation_type |-> operation_type,
                       timestamp |-> now, data |-> data ]
        truncated == SubSeq(history.operations, 1, history.current_index)
        pushed == Append(truncated, operation)
    IN  [ state EXCEPT !.history =
            IF Len(pushed) > history.max_operations
            THEN [ history EXCEPT !.operations = Tail(pushed),
                                  !.current_index = Len(pushed) - 1 ]
            ELSE [ history EXCEPT !.operations = pushed,
                                  !.current_index = Len(pushed) ] ]

EditorElementIds(state) ==
    { state.document.elements[i].id : i \in 1..Len(state.document.elements) }

\* EditorEngine::create_element
editor_create_element(state, properties, now) ==
    LET element_id == Len(state.document.elements)
        element == [ id |-> element_id, properties |-> properties ]
        pushed == [ state EXCEPT !.document.elements = Append(@, element) ]
    IN  [ state   |-> add_to_history(pushed, "Create", [ element_id |-> element_id ], now),
          message |-> "Element created",
          data    |-> Some(element_id) ]

\* EditorEngine::update_element (iter_mut().find takes the first match)
editor_update_element(state, element_id, properties, now) ==
    IF element_id \notin EditorElementIds(state)
    THEN [ state |-> state, message |-> "Element not found", data |-> None ]
    ELSE LET elements == state.document.elements
             i == CHOOSE j \in 1..Len(elements) :
                      /\ elements[j].id = element_id
                      /\ \A k \in 1..(j - 1) : elements[k].id # element_id
             updated == [ state EXCEPT !.document.elements[i].properties =
                                          MapExtend(@, properties) ]
         IN  [ state   |-> add_to_history(updated, "Update",
                                          [ element_id |-> element_id ], now),
               message |-> "Element updated",
               data    |-> None ]

\* EditorEngine::delete_element (position takes the first match)
editor_delete_element(state, element_id, now) ==
    IF element_id \notin EditorElementIds(state)
    THEN [ state |-> state, message |-> "Element not found", data |-> None ]
    ELSE LET elements == state.document.elements
             pos == CHOOSE j \in 1..Len(elements) :
                        /\ elements[j].id = element_id
                        /\ \A k \in 1..(j - 1) : elements[k].id # element_id
             removed == [ state EXCEPT !.document.elements =
                                          SubSeq(elements, 1, pos - 1)
                                              \o SubSeq(elements, pos + 1, Len(elements)) ]
         IN  [ state   |-> add_to_history(removed, "Delete",
                                          [ element_id |-> element_id ], now),
               message |-> "Element deleted",
               data    |-> None ]

\* EditorEngine::undo (apply_inverse_operation has an empty body)
undo(state) ==
    IF state.history.current_index > 0
    THEN [ state   |-> [ state EXCEPT !.history.current_index = @ - 1 ],
           message |-> "Undo successful", data |-> None ]
    ELSE [ state |-> state, message |-> "Nothing to undo", data |-> None ]

\* EditorEngine::redo (apply_operation has an empty body)
redo(state) ==
    IF state.history.current_index < Len(state.history.operations)
    THEN [ state   |-> [ state EXCEPT !.history.current_index = @ + 1 ],
           message |-> "Redo successful", data |-> None ]
    ELSE [ state |-> state, message |-> "Nothing to redo", data |-> None ]

(***************************************************************************)
(* InteractiveEngine                                                       *)
(***************************************************************************)
\* what a call hands back: its code, the id it returns, and (process_-
\* interaction) the responses the InteractionManager produced and the gestures
\* the recognizer detected during the call, (render_frame) the change records;
\* op names the call and, for render_frame, timestamp is the frame time it
\* was given
Result(op, code) ==
    [ op |-> op, code |-> code, value |-> None, timestamp |-> None,
      responses |-> << >>, gestures |-> << >>, changes |-> {} ]

\* InteractiveEngine::process_interaction: the possible outcomes of the call
\* made at clock reading `now` whose InteractionManager dispatch takes
\* processing_time
process_interaction(sc, doc, im, gr, ra, event, now, processing_time) ==
    LET checked == check_interaction_permission(sc, event.event_type, now)
        adapted == adapt_event(ra, event)
        touched == IF IsSome(adapted.touch_data)
                   THEN process_touch_input(gr, Unwrap(adapted.touch_data),
                                            adapted.timestamp)
                   ELSE { [ gr |-> gr, gestures |-> << >> ] }
        managed == process_event(im, adapted, processing_time)
        legacy  == legacy_process_event(doc, adapted)
    IN  IF checked.code # "Ok"
        THEN { [ sc |-> checked.sc, doc |-> doc, im |-> im, gr |-> gr,
                 code |-> checked.code, responses |-> << >>, gestures |-> << >> ] }
        ELSE { [ sc  |-> checked.sc,
                 doc |-> legacy.doc,
                 im  |-> managed.im,
                 gr  |-> IF legacy.code = "Ok"
                         THEN clear_completed_recognitions(t.gr, now + processing_time)
                         ELSE t.gr,
                 code      |-> legacy.code,
                 responses |-> managed.responses,
                 gestures  |-> t.gestures ] : t \in touched }

\* InteractiveEngine::new
InitWith(allowed_choices) ==
    /\ clock = 0
    /\ security_context \in
           { SecurityContextNew(WASMPermissions(allowed), 0) : allowed \in allowed_choices }
    /\ document_state = DocumentStateDefault
    /\ animation_controller = AnimationControllerNew
    /\ interaction_manager = InteractionManagerNew
    /\ gesture_recognizer = GestureRecognizerNew
    /\ responsive_adapter = ResponsiveAdapterNew
    /\ editor_state = EditorStateDefault
    /\ result = Result("new", "Ok")

\* get_current_timestamp: the clock moves on between calls
Advance(step, limit) ==
    /\ clock + step <= limit
    /\ clock' = clock + step
    /\ UNCHANGED << security_context, document_state, animation_controller,
                    interaction_manager, gesture_recognizer, result, responsive_adapter,
                    editor_state >>

Tick == Advance(1, MaxClock)

\* SecurityContext::allocate_memory called by the host
AllocateMemory(size) ==
    \E sum \in UsizeAddOutcomes(security_context.allocated_memory, size) :
        LET allocated == allocate_memory(security_context, size, sum)
        IN  /\ security_context' = allocated.sc
            /\ result' = Result("allocate_memory", allocated.code)
            /\ UNCHANGED << clock, document_state, animation_controller,
                            interaction_manager, gesture_recognizer, responsive_adapter,
                            editor_state >>

\* SecurityContext::deallocate_memory called by the host
DeallocateMemory(size) ==
    /\ security_context' = deallocate_memory(security_context, size)
    /\ result' = Result("deallocate_memory", "Ok")
    /\ UNCHANGED << clock, document_state, animation_controller,
                    interaction_manager, gesture_recognizer, responsive_adapter,
                    editor_state >>

\* InteractiveEngine::create_element, while fewer than `limit` elements exist
CreateElementWithin(limit) ==
    LET permitted == check_element_creation(security_context)
        added == add_element(document_state,
                             [ id |-> clock, properties |-> << >>, event_handlers |-> << >> ])
    IN  /\ Len(document_state.elements) < limit
        /\ IF permitted # "Ok"
           THEN /\ result' = Result("create_element", permitted)
                /\ UNCHANGED document_state
           ELSE /\ document_state' = added.doc
                /\ result' = [ Result("create_element", added.code) EXCEPT
                                 !.value = IF added.code = "Ok" THEN Some(clock) ELSE None ]
        /\ UNCHANGED << clock, security_context, animation_controller,
                        interaction_manager, gesture_recognizer, responsive_adapter,
                        editor_state >>

CreateElement == CreateElementWithin(MaxDocElements)

\* InteractiveEngine::delete_element
DeleteElement(element_id) ==
    LET permitted == check_element_modification(security_context)
        removed == remove_element(document_state, element_id)
    IN  /\ IF permitted # "Ok"
           THEN /\ result' = Result("delete_element", permitted)
                /\ UNCHANGED document_state
           ELSE /\ document_state' = removed.doc
                /\ result' = Result("delete_element", removed.code)
        /\ UNCHANGED << clock, security_context, animation_controller,
                        interaction_manager, gesture_recognizer, responsive_adapter,
                        editor_state >>

\* InteractiveEngine::update_element_properties
UpdateElementProperties(element_id, properties) ==
    LET permitted == check_element_modification(security_context)
        updated == update_element(document_state, element_id, properties)
    IN  /\ IF permitted # "Ok"
           THEN /\ result' = Result("update_element_properties", permitted)
                /\ UNCHANGED document_state
           ELSE /\ document_state' = updated.doc
                /\ result' = Result("update_element_properties", updated.code)
        /\ UNCHANGED << clock, security_context, animation_controller,
                        interaction_manager, gesture_recognizer, responsive_adapter,
                        editor_state >>

\* InteractiveEngine::create_animation
CreateAnimation(target_element, duration) ==
    LET permitted == check_animation_creation(security_context)
        animation == [ id             |-> clock,
                       target_element |-> target_element,
                       duration       |-> duration,
                       easing         |-> "EaseInOut",
                       loop_count     |-> 1 ]
    IN  /\ Len(document_state.animations) < MaxAnimations
        /\ IF permitted # "Ok"
           THEN /\ result' = Result("create_animation", permitted)
                /\ UNCHANGED << document_state, animation_controller >>
           ELSE IF ~IsSome(get_element(document_state, target_element))
           THEN /\ result' = Result("create_animation", "TARGET_NOT_FOUND")
                /\ UNCHANGED << document_state, animation_controller >>
           ELSE /\ document_state' =
                       [ document_state EXCEPT !.animations = Append(@, animation) ]
                /\ animation_controller' =
                       start_animation(animation_controller, animation, clock)
                /\ result' = [ Result("create_animation", "Ok") EXCEPT
                                 !.value = Some(clock) ]
        /\ UNCHANGED << clock, security_context, interaction_manager,
                        gesture_recognizer, responsive_adapter, editor_state >>

\* InteractiveEngine::stop_animation
StopAnimation(animation_id) ==
    LET KeepAnimation(a) == a.id # animation_id
    IN  /\ animation_controller' = stop_animation(animation_controller, animation_id)
        /\ document_state' =
               [ document_state EXCEPT !.animations = SelectSeq(@, KeepAnimation) ]
        /\ result' = Result("stop_animation", "Ok")
        /\ UNCHANGED << clock, security_context, interaction_manager,
                        gesture_recognizer, responsive_adapter, editor_state >>

\* InteractiveEngine::add_event_handler, while the element has fewer than
\* `limit` handlers
AddEventHandler(element_id, event_type, handler_id, limit) ==
    LET permitted == check_event_handler_creation(security_context)
        i == CHOOSE j \in 1..Len(document_state.elements) :
                 document_state.elements[j].id = element_id
    IN  /\ IF permitted # "Ok"
           THEN /\ result' = Result("add_event_handler", permitted)
                /\ UNCHANGED document_state
           ELSE IF element_id \notin ElementIds(document_state)
           THEN /\ result' = Result("add_event_handler", "ELEMENT_NOT_FOUND")
                /\ UNCHANGED document_state
           ELSE /\ Len(document_state.elements[i].event_handlers) < limit
                /\ document_state' =
                       [ document_state EXCEPT !.elements[i].event_handlers =
                           Append(@, [ event_type |-> event_type,
                                       handler_id |-> handler_id,
                                       parameters |-> << >> ]) ]
                /\ result' = Result("add_event_handler", "Ok")
        /\ UNCHANGED << clock, security_context, animation_controller,
                        interaction_manager, gesture_recognizer, responsive_adapter,
                        editor_state >>

\* the number of delegates registered on the targets from `targets`
RECURSIVE DelegateCount(_, _)
DelegateCount(im, targets) ==
    IF targets = {} THEN 0
    ELSE LET t == CHOOSE u \in targets : TRUE
         IN  Len(im.event_delegates[t]) + DelegateCount(im, targets \ { t })

\* InteractiveEngine::add_interaction_delegate, while fewer than `limit`
\* delegates are registered
AddInteractionDelegate(target, delegate, limit) ==
    LET permitted == check_element_modification(security_context)
    IN  /\ DelegateCount(interaction_manager,
                         DOMAIN interaction_manager.event_delegates) < limit
        /\ IF permitted # "Ok"
           THEN /\ result' = Result("add_interaction_delegate", permitted)
                /\ UNCHANGED interaction_manager
           ELSE /\ interaction_manager' =
                       add_event_delegate(interaction_manager, target, delegate)
                /\ result' = Result("add_interaction_delegate", "Ok")
        /\ UNCHANGED << clock, security_context, document_state, animation_controller,
                        gesture_recognizer, responsive_adapter, editor_state >>

\* InteractiveEngine::remove_interaction_delegate
RemoveInteractionDelegate(target, handler_id) ==
    LET permitted == check_element_modification(security_context)
    IN  /\ IF permitted # "Ok"
           THEN /\ result' = Result("remove_interaction_delegate", permitted)
                /\ UNCHANGED interaction_manager
           ELSE /\ interaction_manager' =
                       remove_event_delegate(interaction_manager, target, handler_id)
                /\ result' = Result("remove_interaction_delegate", "Ok")
        /\ UNCHANGED << clock, security_context, document_state, animation_controller,
                        gesture_recognizer, responsive_adapter, editor_state >>

\* InteractiveEngine::update_viewport
UpdateViewport(width, height, scale) ==
    /\ result' = Result("update_viewport", "Ok")
    /\ document_state' = update_viewport(document_state, width, height, scale)
    /\ UNCHANGED << clock, security_context, animation_controller,
                    interaction_manager, gesture_recognizer, responsive_adapter,
                    editor_state >>

\* InteractiveEngine::update_device_capabilities
UpdateDeviceCapabilities(device_info) ==
    /\ result' = Result("update_device_capabilities", "Ok")
    /\ responsive_adapter' =
           initialize_device_detection(update_device_info(responsive_adapter, device_info),
                                       document_state.viewport)
    /\ UNCHANGED << clock, security_context, document_state, animation_controller,
                    interaction_manager, gesture_recognizer, editor_state >>

\* AnimationController::start_animation called with an animation of the
\* caller's making
StartAnimation(animation) ==
    /\ animation_controller' = start_animation(animation_controller, animation, clock)
    /\ result' = Result("start_animation", "Ok")
    /\ UNCHANGED << clock, security_context, document_state, interaction_manager,
                    gesture_recognizer, responsive_adapter, editor_state >>

\* AnimationController::stop_animation called on the controller
StopActiveAnimation(animation_id) ==
    /\ animation_controller' = stop_animation(animation_controller, animation_id)
    /\ result' = Result("stop_animation", "Ok")
    /\ UNCHANGED << clock, security_context, document_state, interaction_manager,
                    gesture_recognizer, responsive_adapter, editor_state >>

\* AnimationController::update_animations called on the controller
UpdateAnimations(timestamp) ==
    LET updated == update_animations(animation_controller, timestamp)
    IN  /\ animation_controller' = updated.ac
        /\ result' = [ Result("update_animations", "Ok") EXCEPT
                         !.timestamp = Some(timestamp),
                         !.changes = updated.changes ]
        /\ UNCHANGED << clock, security_context, document_state, interaction_manager,
                        gesture_recognizer, responsive_adapter, editor_state >>

\* InteractiveEngine::render_frame (data bindings: none are registered)
RenderFrame(timestamp) ==
    LET permitted == check_render_permission(security_context, clock)
        updated == update_animations(animation_controller, timestamp)
    IN  /\ IF permitted # "Ok"
           THEN /\ result' = [ Result("render_frame", permitted) EXCEPT
                                 !.timestamp = Some(timestamp) ]
                /\ UNCHANGED animation_controller
           ELSE /\ animation_controller' = updated.ac
                /\ result' = [ Result("render_frame", "Ok") EXCEPT
                                 !.timestamp = Some(timestamp),
                                 !.changes = updated.changes ]
        /\ UNCHANGED << clock, security_context, document_state,
                        interaction_manager, gesture_recognizer, responsive_adapter,
                        editor_state >>

\* InteractiveEngine::process_interaction, while fewer than `limit` events
\* have been counted and the clock stays within `clock_limit`
ProcessInteraction(event, processing_time, limit, clock_limit) ==
    /\ security_context.interaction_count < limit
    /\ clock + processing_time <= clock_limit
    /\ \E outcome \in process_interaction(security_context, document_state,
                                          interaction_manager, gesture_recognizer,
                                          responsive_adapter,
                                          event, clock, processing_time) :
          /\ security_context' = outcome.sc
          /\ document_state' = outcome.doc
          /\ interaction_manager' = outcome.im
          /\ gesture_recognizer' = outcome.gr
          /\ clock' = IF outcome.code \in {"INTERACTION_NOT_ALLOWED",
                                           "INTERACTION_RATE_EXCEEDED"}
                      THEN clock ELSE clock + processing_time
          /\ result' = [ Result("process_interaction", outcome.code) EXCEPT
                           !.responses = outcome.responses,
                           !.gestures = outcome.gestures ]
    /\ UNCHANGED << animation_controller, responsive_adapter, editor_state >>

\* a call of the EditorEngine that came back with `returned`
EditorCall(op, returned) ==
    /\ editor_state' = returned.state
    /\ result' = [ Result(op, returned.message) EXCEPT !.value = returned.data ]
    /\ UNCHANGED << clock, security_context, document_state, animation_controller,
                    interaction_manager, gesture_recognizer, responsive_adapter >>

\* EditorEngine::create_element, while fewer than `limit` elements are in the
\* editor document
EditorCreateElementWithin(limit, properties) ==
    /\ Len(editor_state.document.elements) < limit
    /\ EditorCall("editor_create_element",
                  editor_create_element(editor_state, properties, clock))

\* EditorEngine::update_element
EditorUpdateElement(element_id, properties) ==
    EditorCall("editor_update_element",
               editor_update_element(editor_state, element_id, properties, clock))

\* EditorEngine::delete_element
EditorDeleteElement(element_id) ==
    EditorCall("editor_delete_element",
               editor_delete_element(editor_state, element_id, clock))

\* EditorEngine::undo
Undo == EditorCall("undo", undo(editor_state))

\* EditorEngine::redo
Redo == EditorCall("redo", redo(editor_state))

(***************************************************************************)
(* Inputs of the calls                                                     *)
(***************************************************************************)
\* an identifier no element or animation ever gets
GhostId == 0 - 1

InteractionEvent(event_type, target_element, timestamp) ==
    [ event_type     |-> event_type,
      target_element |-> target_element,
      timestamp      |-> timestamp,
      mouse_data     |-> None,
      touch_data     |-> None,
      keyboard_data  |-> None,
      gesture_data   |-> None,
      data           |-> << >> ]

MouseData(position) ==
    [ button |-> 0, buttons |-> 1, position |-> position, movement |-> None ]

MouseEvent(event_type, target_element, timestamp, position) ==
    [ InteractionEvent(event_type, target_element, timestamp) EXCEPT
        !.mouse_data = Some(MouseData(position)) ]

\* time the InteractionManager's dispatch may take (ms)
ProcessingTimes == { 0, 1 }

\* the sets of allowed_interactions the sandboxes are started with
Everything == InteractionTypes \cup OperationNames

(***************************************************************************)
(* SpecMemory: the memory budget under the host's allocations and the      *)
(* engine's operations                                                     *)
(***************************************************************************)
InitMemory == InitWith({ Everything })

NextMemory ==
    \/ Tick
    \/ \E size \in 0..UsizeMax : AllocateMemory(size)
    \/ \E size \in 0..UsizeMax : DeallocateMemory(size)
    \/ CreateElementWithin(MaxTargets)
    \/ \E element_id \in ElementIds(document_state) \cup { GhostId } :
           DeleteElement(element_id)
    \/ \E timestamp \in { clock } : RenderFrame(timestamp)
    \/ \E processing_time \in ProcessingTimes :
           ProcessInteraction(MouseEvent("Click", None, clock, Position(0, 0)),
                              processing_time, MaxTargets, MaxClock)

SpecMemory == InitMemory /\ [][NextMemory]_vars

(***************************************************************************)
(* Spec: the document under element and animation operations and frames    *)
(***************************************************************************)
AnimationDurations == { 2 }

\* the timestamps the host passes to render_frame at clock reading `now`
FrameTimestamps(now) == { now, now + 1 }

Init == InitWith({ Everything, Everything \ { "create_element" } })

Next ==
    \/ Tick
    \/ CreateElement
    \/ \E element_id \in ElementIds(document_state) \cup { GhostId } :
           DeleteElement(element_id)
    \/ \E target_element \in ElementIds(document_state) \cup { GhostId },
          duration \in AnimationDurations :
           CreateAnimation(target_element, duration)
    \/ \E animation_id \in DOMAIN animation_controller.active_animations
                           \cup { GhostId } :
           StopAnimation(animation_id)
    \/ \E timestamp \in FrameTimestamps(clock) : RenderFrame(timestamp)

Spec == Init /\ [][Next]_vars

(***************************************************************************)
(* SpecInteract: process_interaction on a document with a target element   *)
(* and its click handlers.  Events are stamped with the clock reading.     *)
(***************************************************************************)
TouchPoint(identifier, position) == [ identifier |-> identifier, position |-> position ]

TouchEvent(event_type, target_element, timestamp, touches, changed_touches) ==
    [ InteractionEvent(event_type, target_element, timestamp) EXCEPT
        !.touch_data = Some([ touches |-> touches, changed_touches |-> changed_touches ]) ]

KeyboardEvent(event_type, target_element, timestamp, key) ==
    [ InteractionEvent(event_type, target_element, timestamp) EXCEPT
        !.keyboard_data = Some([ key |-> key ]) ]

\* the targets an event may name: none, an element, or an unknown id
Targets(doc) == { None, Some(GhostId) } \cup { Some(id) : id \in ElementIds(doc) }

\* the events the host submits at clock reading `now`
InteractEvents(doc, now) ==
    { MouseEvent("Click", target, now, Position(0, 0)) : target \in Targets(doc) }
    \cup { InteractionEvent("Click", target, now) : target \in Targets(doc) }
    \cup { MouseEvent("MouseMove", None, now, Position(2, 0)),
           KeyboardEvent("KeyDown", None, now, "Shift"),
           TouchEvent("TouchStart", None, now,
                      << TouchPoint(0, Position(0, 0)) >>,
                      << TouchPoint(0, Position(0, 0)) >>),
           InteractionEvent("DataUpdate", None, now) }

ClickHandlerIds == { "toggle_visibility", "custom_handler" }

InteractTick == Advance(InteractTickStep, InteractMaxClock)

InitInteract ==
    InitWith({ Everything,
               Everything \ { "Click", "KeyDown", "TouchStart", "DataUpdate" } })

NextInteract ==
    \/ InteractTick
    \/ CreateElementWithin(MaxTargets)
    \/ \E element_id \in ElementIds(document_state) \cup { GhostId },
          handler_id \in ClickHandlerIds :
           AddEventHandler(element_id, "click", handler_id, MaxHandlers)
    \/ \E event \in InteractEvents(document_state, clock),
          processing_time \in ProcessingTimes :
           ProcessInteraction(event, processing_time, MaxEvents, InteractMaxClock)

SpecInteract == InitInteract /\ [][NextInteract]_vars

(***************************************************************************)
(* SpecRate: SecurityContext::check_interaction_permission called as the   *)
(* clock moves on                                                          *)
(***************************************************************************)
RateEventTypes == { "Click", "MouseMove" }

RateTick == Advance(RateTickStep, RateMaxClock)

\* SecurityContext::check_interaction_permission called on an event of the kind
CheckInteractionPermission(event_type) ==
    LET checked == check_interaction_permission(security_context, event_type, clock)
    IN  /\ security_context.interaction_count < MaxRateEvents
        /\ security_context' = checked.sc
        /\ result' = Result("check_interaction_permission", checked.code)
        /\ UNCHANGED << clock, document_state, animation_controller,
                        interaction_manager, gesture_recognizer, responsive_adapter,
                        editor_state >>

InitRate == InitWith({ Everything, Everything \ { "Click" } })

NextRate ==
    \/ RateTick
    \/ \E event_type \in RateEventTypes : CheckInteractionPermission(event_type)

SpecRate == InitRate /\ [][NextRate]_vars

(***************************************************************************)
(* SpecGesture: GestureRecognizer::process_touch_input and                 *)
(* clear_completed_recognitions called as the clock moves on; samples are  *)
(* stamped with the clock reading.  The positions lie on one line, at      *)
(* whole distances 10, 90 and 100 from each other.                         *)
(***************************************************************************)
GesturePositions == { Position(0, 0), Position(6, 8), Position(60, 80) }

\* one finger down or moving at `position`
SingleTouchInput(position) ==
    [ touches         |-> << TouchPoint(0, position) >>,
      changed_touches |-> << TouchPoint(0, position) >> ]

\* the finger lifted at `position`: no active touch is left
TouchEndInput(position) ==
    [ touches         |-> << >>,
      changed_touches |-> << TouchPoint(0, position) >> ]

\* two fingers down
TwoTouchInput(first, second) ==
    [ touches         |-> << TouchPoint(0, first), TouchPoint(1, second) >>,
      changed_touches |-> << TouchPoint(1, second) >> ]

TouchInputs ==
    { SingleTouchInput(position) : position \in GesturePositions }
    \cup { TouchEndInput(position) : position \in GesturePositions }
    \cup { TwoTouchInput(Position(0, 0), position) :
               position \in GesturePositions \ { Position(0, 0) } }

GestureTick == Advance(GestureTickStep, GestureMaxClock)

\* GestureRecognizer::process_touch_input called by the host while every
\* recognition holds fewer than `samples` samples and the history fewer than
\* `gestures` gestures
ProcessTouchInputWithin(touch_data, timestamp, samples, gestures) ==
    /\ \A key \in DOMAIN gesture_recognizer.active_recognizers :
           Len(gesture_recognizer.active_recognizers[key].samples) < samples
    /\ Len(gesture_recognizer.gesture_history) < gestures
    /\ \E outcome \in process_touch_input(gesture_recognizer, touch_data, timestamp) :
          /\ gesture_recognizer' = outcome.gr
          /\ result' = [ Result("process_touch_input", "Ok") EXCEPT
                           !.gestures = outcome.gestures ]
    /\ UNCHANGED << clock, security_context, document_state, animation_controller,
                    interaction_manager, responsive_adapter, editor_state >>

ProcessTouchInput(touch_data, timestamp) ==
    ProcessTouchInputWithin(touch_data, timestamp, MaxSamples, MaxGestures)

\* GestureRecognizer::clear_completed_recognitions called by the host
ClearCompletedRecognitions ==
    /\ gesture_recognizer' = clear_completed_recognitions(gesture_recognizer, clock)
    /\ result' = Result("clear_completed_recognitions", "Ok")
    /\ UNCHANGED << clock, security_context, document_state, animation_controller,
                    interaction_manager, responsive_adapter, editor_state >>

InitGesture == InitWith({ Everything })

NextGesture ==
    \/ GestureTick
    \/ \E touch_data \in TouchInputs : ProcessTouchInput(touch_data, clock)
    \/ ClearCompletedRecognitions

SpecGesture == InitGesture /\ [][NextGesture]_vars

(***************************************************************************)
(* SpecSwipe: one finger moved along a horizontal line, sampled by         *)
(* process_touch_input as the clock moves on (whole distances 150 and 300) *)
(***************************************************************************)
SwipePositions == { Position(0, 0), Position(150, 0), Position(300, 0) }

SwipeTick == Advance(SwipeTickStep, SwipeMaxClock)

InitSwipe == InitWith({ Everything })

NextSwipe ==
    \/ SwipeTick
    \/ \E position \in SwipePositions :
           ProcessTouchInput(SingleTouchInput(position), clock)

SpecSwipe == InitSwipe /\ [][NextSwipe]_vars

(***************************************************************************)
(* SpecDevice: the ResponsiveAdapter told of viewports and device          *)
(* capabilities.  The viewports are those of a phone (320x480, 360x480,    *)
(* 375x667), a tablet (768x1024) and a desktop screen (1920x1080), in both *)
(* orientations and mixed.                                                 *)
(***************************************************************************)
ViewportWidths == { 320, 360, 375, 768, 1920 }
ViewportHeights == { 480, 667, 1024, 1080 }
Viewports == { Viewport(width, height) : width \in ViewportWidths,
                                         height \in ViewportHeights }

PixelDensities == { 1, 2 }

\* the capabilities the host may report for the screen the adapter knows
DeviceInfos(ra) ==
    { DeviceInfo(device_type, ra.device_info.screen_size, pixel_density, has_force_touch) :
        device_type \in DeviceTypes, pixel_density \in PixelDensities,
        has_force_touch \in BOOLEAN }

\* ResponsiveAdapter::initialize_device_detection called by the host
InitializeDeviceDetection(viewport) ==
    /\ result' = Result("initialize_device_detection", "Ok")
    /\ responsive_adapter' = initialize_device_detection(responsive_adapter, viewport)
    /\ UNCHANGED << clock, security_context, document_state, animation_controller,
                    interaction_manager, gesture_recognizer, editor_state >>

\* ResponsiveAdapter::update_device_info called by the host
UpdateDeviceInfo(device_info) ==
    /\ result' = Result("update_device_info", "Ok")
    /\ responsive_adapter' = update_device_info(responsive_adapter, device_info)
    /\ UNCHANGED << clock, security_context, document_state, animation_controller,
                    interaction_manager, gesture_recognizer, editor_state >>

InitDevice == InitWith({ Everything })

NextDevice ==
    \/ \E viewport \in Viewports : InitializeDeviceDetection(viewport)
    \/ \E device_info \in DeviceInfos(responsive_adapter) : UpdateDeviceInfo(device_info)

SpecDevice == InitDevice /\ [][NextDevice]_vars

(***************************************************************************)
(* SpecAnimation: one animation of AnimationDuration ms sampled by         *)
(* render_frame at frame times the host chooses.  The frame time is the    *)
(* host's argument, on the host's time base: it may lie before the clock   *)
(* reading at which the animation was started.                             *)
(***************************************************************************)
FrameTimes == { k * FrameStep : k \in (0 - FramesBefore)..FramesAfter }

InitAnimation == InitWith({ Everything })

NextAnimation ==
    \/ Tick
    \/ CreateElement
    \/ \E target_element \in ElementIds(document_state) :
           CreateAnimation(target_element, AnimationDuration)
    \/ \E timestamp \in FrameTimes : RenderFrame(timestamp)

SpecAnimation == InitAnimation /\ [][NextAnimation]_vars

(***************************************************************************)
(* SpecDelegate: delegates registered on and removed from two target ids,  *)
(* and Click and MouseMove events submitted to them                        *)
(***************************************************************************)
EventDelegate(element_id, event_types, handler_id) ==
    [ element_id |-> element_id, event_types |-> event_types,
      handler_id |-> handler_id, capture |-> FALSE, priority |-> 1 ]

DelegateHandlerIds == { "first_handler", "second_handler" }

DelegateEventTypes == { { "Click", "TouchStart" }, { "MouseMove" } }

\* the ids a delegate is registered on; neither add_interaction_delegate nor
\* delegate_event looks the id up in the document
DelegateTargets == { 0, GhostId }

\* the element that is told of the delegated event
DelegateElement == 7

\* the first handler listens to both kinds of event, the second to clicks
EventDelegates ==
    { EventDelegate(DelegateElement, event_types, "first_handler") :
        event_types \in DelegateEventTypes }
    \cup { EventDelegate(DelegateElement, { "Click", "TouchStart" }, "second_handler") }

DelegateEvents(now) ==
    { MouseEvent(event_type, target, now, Position(0, 0)) :
        event_type \in { "Click", "MouseMove" },
        target \in { None } \cup { Some(t) : t \in DelegateTargets } }
    \cup { InteractionEvent("Click", Some(t), now) : t \in DelegateTargets }

InitDelegate == InitWith({ Everything, Everything \ { "modify_element" } })

NextDelegate ==
    \/ \E target \in DelegateTargets, delegate \in EventDelegates :
           AddInteractionDelegate(target, delegate, MaxDelegates)
    \/ \E target \in DelegateTargets, handler_id \in DelegateHandlerIds :
           RemoveInteractionDelegate(target, handler_id)
    \/ \E event \in DelegateEvents(clock) :
           ProcessInteraction(event, 0, DelegateMaxEvents, MaxClock)

SpecDelegate == InitDelegate /\ [][NextDelegate]_vars

(***************************************************************************)
(* SpecKeyboard: key events for the four modifier keys and a letter,       *)
(* stamped with the clock reading                                          *)
(***************************************************************************)
KeyboardKeys == { "Control", "Shift", "Alt", "Meta", "a" }

KeyboardEventTypes == { "KeyDown", "KeyUp", "KeyPress" }

KeyboardEvents(now) ==
    { KeyboardEvent(event_type, None, now, key) :
        event_type \in KeyboardEventTypes, key \in KeyboardKeys }
    \cup { InteractionEvent(event_type, None, now) : event_type \in KeyboardEventTypes }

InitKeyboard == InitWith({ Everything, Everything \ { "KeyUp" } })

NextKeyboard ==
    \/ InteractTick
    \/ \E event \in KeyboardEvents(clock) :
           ProcessInteraction(event, 0, KeyboardMaxEvents, InteractMaxClock)

SpecKeyboard == InitKeyboard /\ [][NextKeyboard]_vars

(***************************************************************************)
(* SpecMouse: MouseDown, MouseUp and MouseMove events, with a button held, *)
(* on two target ids and on no target, stamped with the clock reading      *)
(***************************************************************************)
MouseTargets == { None, Some(0), Some(GhostId) }

MouseEvents(now) ==
    { MouseEvent(event_type, target, now, Position(0, 0)) :
        event_type \in { "MouseDown", "MouseUp" }, target \in MouseTargets }
    \cup { MouseEvent("MouseMove", Some(0), now, position) :
             position \in { Position(0, 0), Position(MouseFar, 0) } }
    \cup { InteractionEvent(event_type, Some(0), now) :
             event_type \in { "MouseDown", "MouseUp", "MouseMove" } }

InitMouse == InitWith({ Everything, Everything \ { "MouseUp" } })

NextMouse ==
    \/ InteractTick
    \/ \E event \in MouseEvents(clock) :
           ProcessInteraction(event, 0, MouseMaxEvents, InteractMaxClock)

SpecMouse == InitMouse /\ [][NextMouse]_vars

(***************************************************************************)
(* SpecCleanup: two fingers held 100 units apart and one finger resting,   *)
(* sampled by process_touch_input over a second and a half, with           *)
(* clear_completed_recognitions called in between                          *)
(***************************************************************************)
CleanupInputs ==
    { TwoTouchInput(Position(0, 0), Position(60, 80)),
      SingleTouchInput(Position(0, 0)) }

CleanupTick == Advance(CleanupTickStep, CleanupMaxClock)

InitCleanup == InitWith({ Everything })

NextCleanup ==
    \/ CleanupTick
    \/ \E touch_data \in CleanupInputs : ProcessTouchInput(touch_data, clock)
    \/ ClearCompletedRecognitions

SpecCleanup == InitCleanup /\ [][NextCleanup]_vars

(***************************************************************************)
(* SpecLoop: the AnimationController driven directly: animations that run  *)
(* once, twice or for ever are started, stopped and ticked                 *)
(***************************************************************************)
LoopCounts == { 0 - 1, 1, 2 }

LoopAnimationIds == { 0, 1 }

LoopAnimations ==
    { [ id |-> id, target_element |-> GhostId, duration |-> duration,
        easing |-> "Linear", loop_count |-> loop_count ] :
        id \in LoopAnimationIds, duration \in AnimationDurations,
        loop_count \in LoopCounts }

InitLoop == InitWith({ Everything })

NextLoop ==
    \/ Tick
    \/ \E animation \in LoopAnimations : StartAnimation(animation)
    \/ \E animation_id \in LoopAnimationIds : StopActiveAnimation(animation_id)
    \/ \E timestamp \in FrameTimestamps(clock) : UpdateAnimations(timestamp)

SpecLoop == InitLoop /\ [][NextLoop]_vars

(***************************************************************************)
(* SpecClick: Click and DoubleClick events a quarter, half and three       *)
(* quarters of a second apart, stamped with the clock reading              *)
(***************************************************************************)
ClickEvents(now) ==
    { MouseEvent(event_type, target, now, Position(0, 0)) :
        event_type \in { "Click", "DoubleClick" }, target \in { None, Some(GhostId) } }
    \cup { InteractionEvent("Click", None, now) }

ClickTick == Advance(ClickTickStep, ClickMaxClock)

InitClick == InitWith({ Everything, Everything \ { "DoubleClick" } })

NextClick ==
    \/ ClickTick
    \/ \E event \in ClickEvents(clock) :
           ProcessInteraction(event, 0, ClickMaxEvents, ClickMaxClock)

SpecClick == InitClick /\ [][NextClick]_vars

(***************************************************************************)
(* SpecTouch: two fingers put down, moved and lifted, one at a time or     *)
(* together, in touch events stamped with the clock reading                *)
(***************************************************************************)
TouchEventTypes == { "TouchStart", "TouchMove", "TouchEnd", "TouchCancel" }

\* the changed_touches of an event: the first finger, the second, or both
ChangedTouches ==
    { << TouchPoint(0, Position(0, 0)) >>,
      << TouchPoint(1, Position(0, 0)) >>,
      << TouchPoint(0, Position(0, 0)), TouchPoint(1, Position(0, 0)) >> }

TouchEvents(now) ==
    { TouchEvent(event_type, None, now,
                 IF event_type \in { "TouchEnd", "TouchCancel" } THEN << >> ELSE changed,
                 changed) :
        event_type \in TouchEventTypes, changed \in ChangedTouches }
    \cup { InteractionEvent(event_type, None, now) : event_type \in TouchEventTypes }

InitTouch == InitWith({ Everything, Everything \ { "TouchCancel" } })

NextTouch ==
    \/ InteractTick
    \/ \E event \in TouchEvents(clock) :
           ProcessInteraction(event, 0, TouchMaxEvents, InteractMaxClock)

SpecTouch == InitTouch /\ [][NextTouch]_vars

(***************************************************************************)
(* SpecTap: fingers put down at the origin and lifted near it or ten units *)
(* away, at once or up to 300 ms later                                     *)
(***************************************************************************)
\* the changed_touches of a TouchStart
TapStarts ==
    { << TouchPoint(0, Position(0, 0)) >>,
      << TouchPoint(0, Position(0, 0)), TouchPoint(1, Position(0, 0)) >> }

\* the changed_touches of a TouchEnd or TouchCancel: a lift 5 units away, a
\* lift exactly 10 units away, both fingers, and one finger named twice
TapEnds ==
    { << TouchPoint(0, Position(3, 4)) >>,
      << TouchPoint(0, Position(6, 8)) >>,
      << TouchPoint(1, Position(0, 0)), TouchPoint(0, Position(3, 4)) >>,
      << TouchPoint(0, Position(0, 0)), TouchPoint(0, Position(0, 0)) >> }

TapEvents(now) ==
    { TouchEvent("TouchStart", None, now, changed, changed) : changed \in TapStarts }
    \cup { TouchEvent(event_type, target, now, << >>, changed) :
             event_type \in { "TouchEnd", "TouchCancel" },
             target \in { None, Some(GhostId) },
             changed \in TapEnds }

TapTick == Advance(TapTickStep, TapMaxClock)

InitTap == InitWith({ Everything, Everything \ { "TouchCancel" } })

NextTap ==
    \/ TapTick
    \/ \E event \in TapEvents(clock) :
           ProcessInteraction(event, 0, TapMaxEvents, TapMaxClock)

SpecTap == InitTap /\ [][NextTap]_vars

(***************************************************************************)
(* SpecFocus: Focus and Blur events on no target and on two targets        *)
(***************************************************************************)
FocusTargets == { None, Some(0), Some(GhostId) }

FocusEvents(now) ==
    { InteractionEvent(event_type, target, now) :
        event_type \in { "Focus", "Blur" }, target \in FocusTargets }

InitFocus == InitWith({ Everything, Everything \ { "Blur" } })

NextFocus ==
    \/ InteractTick
    \/ \E event \in FocusEvents(clock) :
           ProcessInteraction(event, 0, FocusMaxEvents, InteractMaxClock)

SpecFocus == InitFocus /\ [][NextFocus]_vars

(***************************************************************************)
(* SpecCapabilities: the engine told of viewports and device capabilities. *)
(* The viewports have diagonals below 600 (320x480), of exactly 600        *)
(* (360x480), between 600 and 1200, and of exactly 1200 (720x960).         *)
(***************************************************************************)
CapabilityViewports == { Viewport(width, height) : width \in { 320, 360, 720 },
                                                   height \in { 480, 960 } }

\* the capabilities the host may report
CapabilityInfos(ra) ==
    { DeviceInfo(device_type, ra.device_info.screen_size, pixel_density, FALSE) :
        device_type \in DeviceTypes, pixel_density \in PixelDensities }

InitCapabilities == InitWith({ Everything })

NextCapabilities ==
    \/ \E viewport \in CapabilityViewports :
           UpdateViewport(viewport.width, viewport.height, viewport.scale)
    \/ \E viewport \in CapabilityViewports : InitializeDeviceDetection(viewport)
    \/ \E device_info \in CapabilityInfos(responsive_adapter) :
           UpdateDeviceInfo(device_info)
    \/ \E device_info \in CapabilityInfos(responsive_adapter) :
           UpdateDeviceCapabilities(device_info)

SpecCapabilities == InitCapabilities /\ [][NextCapabilities]_vars

(***************************************************************************)
(* SpecDocument: elements created, updated and deleted, the viewport       *)
(* changed and data updates submitted as the clock moves on                *)
(***************************************************************************)
\* the properties update_element_properties is given
PropertyUpdates == { [ k \in { "width" } |-> 50 ] }

\* the data of a DataUpdate event: well formed, or without the data
DataUpdates ==
    { [ k \in { "data_source_id", "data" } |-> "prices" ],
      [ k \in { "data_source_id" } |-> "prices" ] }

DataUpdateEvents(now) ==
    { [ InteractionEvent("DataUpdate", None, now) EXCEPT !.data = data ] :
        data \in DataUpdates }

InitDocument == InitWith({ Everything, Everything \ { "modify_element" } })

NextDocument ==
    \/ Tick
    \/ CreateElement
    \/ \E element_id \in ElementIds(document_state) \cup { GhostId } :
           DeleteElement(element_id)
    \/ \E element_id \in ElementIds(document_state) \cup { GhostId },
          properties \in PropertyUpdates :
           UpdateElementProperties(element_id, properties)
    \/ \E viewport \in { Viewport(320, 480), Viewport(1920, 1080) } :
           UpdateViewport(viewport.width, viewport.height, viewport.scale)
    \/ \E event \in DataUpdateEvents(clock) :
           ProcessInteraction(event, 0, DocumentMaxEvents, MaxClock)

SpecDocument == InitDocument /\ [][NextDocument]_vars

(***************************************************************************)
(* SpecBare: mouse, click, touch and keyboard events that carry the        *)
(* payload of their family and events that do not, submitted to no target  *)
(* and to a target that may have a delegate                                *)
(***************************************************************************)
\* the kinds of event whose handler reads mouse_data, touch_data or
\* keyboard_data
PayloadEventTypes ==
    { "MouseDown", "MouseUp", "MouseMove", "Click", "DoubleClick",
      "TouchStart", "TouchMove", "TouchEnd", "TouchCancel",
      "KeyDown", "KeyUp", "KeyPress" }

BareTargets == { None, Some(0) }

\* the events without a payload
BareEvents(now) ==
    { InteractionEvent(event_type, target, now) :
        event_type \in PayloadEventTypes, target \in BareTargets }

\* events with their payload, which fill the records of the manager
LoadedEvents(now) ==
    { MouseEvent("MouseDown", Some(0), now, Position(0, 0)),
      MouseEvent("Click", None, now, Position(0, 0)),
      KeyboardEvent("KeyDown", None, now, "Shift"),
      TouchEvent("TouchStart", Some(0), now,
                 << TouchPoint(0, Position(0, 0)) >>,
                 << TouchPoint(0, Position(0, 0)) >>) }

\* the delegate of target 0
BareDelegate ==
    EventDelegate(DelegateElement, { "Click", "KeyDown", "TouchEnd", "MouseMove" },
                  "first_handler")

InitBare == InitWith({ Everything, Everything \ { "KeyUp", "TouchMove" } })

NextBare ==
    \/ InteractTick
    \/ AddInteractionDelegate(0, BareDelegate, 1)
    \/ \E event \in BareEvents(clock) \cup LoadedEvents(clock),
          processing_time \in ProcessingTimes :
           ProcessInteraction(event, processing_time, BareMaxEvents, InteractMaxClock)

SpecBare == InitBare /\ [][NextBare]_vars

(***************************************************************************)
(* SpecEditor: the EditorEngine under create_element, update_element,      *)
(* delete_element, undo and redo, all at one reading of the clock          *)
(***************************************************************************)
InitEditor == InitWith({ Everything })

NextEditor ==
    \/ \E properties \in { << >> } : EditorCreateElementWithin(EditMaxElements, properties)
    \/ \E element_id \in EditorElementIds(editor_state) \cup { GhostId },
          properties \in { << >> } :
           EditorUpdateElement(element_id, properties)
    \/ \E element_id \in EditorElementIds(editor_state) \cup { GhostId } :
           EditorDeleteElement(element_id)
    \/ Undo
    \/ Redo

SpecEditor == InitEditor /\ [][NextEditor]_vars

(***************************************************************************)
(* SpecEditorIds: elements created in and deleted from the editor document *)
(***************************************************************************)
InitEditorIds == InitWith({ Everything })

NextEditorIds ==
    \/ \E properties \in { << >>, [ k \in { "width" } |-> 50 ] } :
           EditorCreateElementWithin(EditIdsMaxElements, properties)
    \/ \E element_id \in EditorElementIds(editor_state) \cup { GhostId } :
           EditorDeleteElement(element_id)

SpecEditorIds == InitEditorIds /\ [][NextEditorIds]_vars

(***************************************************************************)
(* SpecHistory: two fingers held ten units apart, sampled by               *)
(* process_touch_input until the gesture history has been full             *)
(***************************************************************************)
HistoryInputs == { TwoTouchInput(Position(0, 0), Position(6, 8)) }

HistoryTick == Advance(1, HistoryMaxClock)

InitHistory == InitWith({ Everything })

NextHistory ==
    \/ HistoryTick
    \/ \E touch_data \in HistoryInputs :
           ProcessTouchInputWithin(touch_data, clock, HistoryMaxCalls,
                                   GestureHistoryLimit + 1)

SpecHistory == InitHistory /\ [][NextHistory]_vars

(***************************************************************************)
(* SpecCreate: elements created and deleted as the clock moves on, in a    *)
(* sandbox whose element limit lies beyond the number of elements the      *)
(* model creates                                                           *)
(***************************************************************************)
InitCreate ==
    /\ clock = 0
    /\ \E allowed \in { Everything, Everything \ { "modify_element" } } :
           security_context =
               SecurityContextNew([ WASMPermissions(allowed) EXCEPT
                                      !.max_elements = MaxDocElements + 1 ], 0)
    /\ document_state = DocumentStateDefault
    /\ animation_controller = AnimationControllerNew
    /\ interaction_manager = InteractionManagerNew
    /\ gesture_recognizer = GestureRecognizerNew
    /\ responsive_adapter = ResponsiveAdapterNew
    /\ editor_state = EditorStateDefault
    /\ result = Result("new", "Ok")

NextCreate ==
    \/ Tick
    \/ CreateElement
    \/ \E element_id \in ElementIds(document_state) \cup { GhostId } :
           DeleteElement(element_id)

SpecCreate == InitCreate /\ [][NextCreate]_vars

(***************************************************************************)
(* Memory budget                                                           *)
(***************************************************************************)
\* C1: in every reachable state allocated_memory is at most max_memory,
\* whatever allocations, deallocations and engine operations led there, and
\* deallocation never takes it below zero.
C1_AllocatedWithinBudget ==
    /\ security_context.allocated_memory <= security_context.resource_limits.max_memory
    /\ security_context.allocated_memory >= 0

\* an allocation was refused while the budget was used up and an element exists
C1_Witness ==
    /\ result.op = "allocate_memory"
    /\ result.code = "MEMORY_LIMIT_EXCEEDED"
    /\ security_context.allocated_memory = security_context.resource_limits.max_memory
    /\ Len(document_state.elements) > 0

\* C9: for every counter value and every size, allocate_memory is refused with
\* MEMORY_LIMIT_EXCEEDED exactly when the mathematical sum
\* allocated_memory + size exceeds max_memory (the counter staying as it was),
\* and otherwise succeeds and raises the counter by exactly size.
C9_AllocateDecidedByMathematicalSum ==
    [][ \A size \in 0..UsizeMax :
          AllocateMemory(size) =>
            IF security_context.allocated_memory + size
                   > security_context.resource_limits.max_memory
            THEN /\ result'.code = "MEMORY_LIMIT_EXCEEDED"
                 /\ security_context' = security_context
            ELSE /\ result'.code = "Ok"
                 /\ security_context'.allocated_memory =
                        security_context.allocated_memory + size ]_vars

(***************************************************************************)
(* Elements                                                                *)
(***************************************************************************)
\* C2: with create_element permitted, the number of elements never exceeds
\* max_elements: once the limit is reached every further create_element fails.
C2_ElementCountWithinLimit ==
    Len(document_state.elements) <= security_context.resource_limits.max_elements

\* C3: whenever create_element returns an error (creation not permitted, or
\* the generated id already exists) the document is as it was: elements,
\* render-tree nodes, dirty list and animations are unchanged and every
\* earlier element is still retrievable.
C3_FailedCreateLeavesDocument ==
    [][ (CreateElement /\ result'.code # "Ok") =>
          /\ document_state'.elements = document_state.elements
          /\ document_state'.render_tree = document_state.render_tree
          /\ document_state'.animations = document_state.animations
          /\ animation_controller' = animation_controller
          /\ \A element_id \in ElementIds(document_state) :
                 get_element(document_state', element_id)
                     = get_element(document_state, element_id) ]_vars

\* a create_element was refused for a duplicate id while the document held an
\* element and an animation
C3_Witness ==
    /\ result.op = "create_element"
    /\ result.code = "ELEMENT_EXISTS"
    /\ Len(document_state.elements) > 0
    /\ Len(document_state.animations) > 0

(***************************************************************************)
(* Frames                                                                  *)
(***************************************************************************)
\* C8: render_frame fails with CPU_TIME_EXCEEDED exactly when the time elapsed
\* since the sandbox started exceeds max_cpu_time; as the clock never goes
\* back, once it fails it fails ever after; and a failing call neither
\* advances nor removes an animation.
C8_RenderFailsExactlyPastCpuBudget ==
    [][ /\ \A timestamp \in FrameTimestamps(clock) :
              RenderFrame(timestamp) =>
                /\ (result'.code = "CPU_TIME_EXCEEDED") <=>
                       (clock - security_context.start_time
                            > security_context.resource_limits.max_cpu_time)
                /\ result'.code \in { "CPU_TIME_EXCEEDED", "Ok" }
                /\ result'.code = "CPU_TIME_EXCEEDED" =>
                       /\ animation_controller' = animation_controller
                       /\ document_state' = document_state
        /\ (clock - security_context.start_time
                > security_context.resource_limits.max_cpu_time) =>
               (clock' - security_context'.start_time
                    > security_context'.resource_limits.max_cpu_time) ]_vars

\* a frame was refused while an animation that had run its full duration was
\* still active
C8_Witness ==
    /\ result.op = "render_frame"
    /\ result.code = "CPU_TIME_EXCEEDED"
    /\ \E id \in DOMAIN animation_controller.active_animations :
           clock - animation_controller.active_animations[id].start_time
               >= animation_controller.active_animations[id].animation.duration

(***************************************************************************)
(* Interactions                                                            *)
(***************************************************************************)
\* C4: process_interaction on an event whose kind is not in
\* allowed_interactions returns INTERACTION_NOT_ALLOWED and changes nothing:
\* interaction_count and the rest of the security context, the interaction
\* manager (metrics, mouse, keyboard, touch and interaction states), the
\* gesture recognizer and the document are as before the call.
C4_DisallowedKindChangesNothing ==
    [][ \A event \in InteractEvents(document_state, clock),
           processing_time \in ProcessingTimes :
          ( /\ ProcessInteraction(event, processing_time, MaxEvents, InteractMaxClock)
            /\ event.event_type \notin security_context.permissions.allowed_interactions )
          => /\ result'.code = "INTERACTION_NOT_ALLOWED"
             /\ security_context' = security_context
             /\ interaction_manager' = interaction_manager
             /\ gesture_recognizer' = gesture_recognizer
             /\ document_state' = document_state
             /\ animation_controller' = animation_controller ]_vars

\* an event was refused for its kind after earlier events had been processed
\* and an element created
C4_Witness ==
    /\ result.op = "process_interaction"
    /\ result.code = "INTERACTION_NOT_ALLOWED"
    /\ security_context.interaction_count > 0
    /\ interaction_manager.performance_metrics.total_events > 0
    /\ Len(document_state.elements) > 0

\* C5 as stated: every Click whose kind is permitted and that is not
\* rate-limited passes the check and makes the interaction manager produce at
\* least one response, whatever target and payload fields it carries.
C5_PermittedClickYieldsResponse ==
    [][ \A event \in InteractEvents(document_state, clock),
           processing_time \in ProcessingTimes :
          ( /\ ProcessInteraction(event, processing_time, MaxEvents, InteractMaxClock)
            /\ event.event_type = "Click"
            /\ "Click" \in security_context.permissions.allowed_interactions
            /\ result'.code # "INTERACTION_RATE_EXCEEDED" )
          => /\ result'.code # "INTERACTION_NOT_ALLOWED"
             /\ Len(result'.responses) >= 1 ]_vars

\* C5 amended: every permitted, not rate-limited Click that carries a mouse
\* payload passes the check and makes the interaction manager produce a Click
\* response for the event's target, whatever the target is; the call returns
\* Ok unless a click handler of the target element has an unknown id (then
\* UNKNOWN_HANDLER).
C5_PermittedClickWithPayloadYieldsResponse ==
    [][ \A event \in InteractEvents(document_state, clock),
           processing_time \in ProcessingTimes :
          ( /\ ProcessInteraction(event, processing_time, MaxEvents, InteractMaxClock)
            /\ event.event_type = "Click"
            /\ IsSome(event.mouse_data)
            /\ "Click" \in security_context.permissions.allowed_interactions
            /\ result'.code # "INTERACTION_RATE_EXCEEDED" )
          => /\ result'.code \in { "Ok", "UNKNOWN_HANDLER" }
             /\ Len(result'.responses) >= 1
             /\ result'.responses[1].response_type = "Click"
             /\ result'.responses[1].target_element = event.target_element
             /\ result'.code = "UNKNOWN_HANDLER" =>
                    /\ IsSome(get_element(document_state, Unwrap(event.target_element)))
                    /\ \E i \in 1..Len(Unwrap(get_element(document_state,
                                   Unwrap(event.target_element))).event_handlers) :
                           Unwrap(get_element(document_state,
                               Unwrap(event.target_element))).event_handlers[i].handler_id
                               \notin KnownHandlers ]_vars

\* a Click on an element with a click handler was accepted and answered
C5_Witness ==
    /\ result.op = "process_interaction"
    /\ result.code = "Ok"
    /\ Len(result.responses) >= 1
    /\ result.responses[1].response_type = "Click"
    /\ IsSome(result.responses[1].target_element)
    /\ IsSome(get_element(document_state, Unwrap(result.responses[1].target_element)))
    /\ Len(Unwrap(get_element(document_state,
               Unwrap(result.responses[1].target_element))).event_handlers) > 0

\* C7: interaction_count is incremented only by accepted checks: a
\* check_interaction_permission call that returns INTERACTION_NOT_ALLOWED or
\* INTERACTION_RATE_EXCEEDED leaves interaction_count and every other field of
\* the security context unchanged.
C7_RejectedCheckLeavesContext ==
    [][ \A event_type \in RateEventTypes :
          ( /\ CheckInteractionPermission(event_type)
            /\ result'.code \in { "INTERACTION_NOT_ALLOWED",
                                  "INTERACTION_RATE_EXCEEDED" } )
          => security_context' = security_context ]_vars

\* C6: a check made while the number of permitted events submitted so far
\* (this one included) divided by the seconds elapsed since the sandbox
\* started is at or below max_interactions_per_second does not fail with
\* INTERACTION_RATE_EXCEEDED.  (interaction_count counts every permitted event
\* submitted, and the outcome of a check depends on it and the clock alone, so
\* the premise at this call is the premise at every call of the run that
\* submits all the events at this instant.)
C6_AtOrBelowRateNeverRejected ==
    [][ \A event_type \in RateEventTypes :
          ( /\ CheckInteractionPermission(event_type)
            /\ event_type \in security_context.permissions.allowed_interactions
            /\ clock - security_context.start_time > 0
            /\ (security_context.interaction_count + 1) * 1000
                   <= security_context.resource_limits.max_interactions_per_second
                          * (clock - security_context.start_time) )
          => result'.code # "INTERACTION_RATE_EXCEEDED" ]_vars

(***************************************************************************)
(* Gestures                                                                *)
(***************************************************************************)
\* C10: a single touch that starts and then ends (the end reported with no
\* active touch and the touch in changed_touches) within 10 units of where it
\* started and less than 300 ms later is reported by process_touch_input as a
\* Tap with confidence above 0.5.
C10_TouchEndReportsTap ==
    [][ \A position \in GesturePositions :
          ( /\ ProcessTouchInput(TouchEndInput(position), clock)
            /\ SingleKey(0) \in DOMAIN gesture_recognizer.active_recognizers
            /\ Len(gesture_recognizer.active_recognizers[SingleKey(0)].samples) = 1
            /\ DistanceSquared(
                   gesture_recognizer.active_recognizers[SingleKey(0)].samples[1].position,
                   position) <= 10 * 10
            /\ clock - gesture_recognizer.active_recognizers[SingleKey(0)].start_time < 300 )
          => \E i \in 1..Len(result'.gestures) :
                 /\ result'.gestures[i].gesture_type = "Tap"
                 /\ ConfidenceAbove(result'.gestures[i].confidence, 1, 2) ]_vars

\* C11: a single touch whose samples move at least 150 units horizontally
\* within at most 400 ms (and at least the 50 ms every config asks for) is
\* reported by process_touch_input as a Swipe whose properties contain
\* 'direction'.
C11_HorizontalMoveIsSwipe ==
    [][ \A position \in SwipePositions :
          ( /\ ProcessTouchInput(SingleTouchInput(position), clock)
            /\ SingleKey(0) \in DOMAIN gesture_recognizer.active_recognizers
            /\ Abs(position.x
                   - gesture_recognizer.active_recognizers[SingleKey(0)].samples[1].position.x)
                   >= 150
            /\ clock - gesture_recognizer.active_recognizers[SingleKey(0)].start_time >= 50
            /\ clock - gesture_recognizer.active_recognizers[SingleKey(0)].start_time <= 400 )
          => /\ Len(result'.gestures) >= 1
             /\ result'.gestures[1].gesture_type = "Swipe"
             /\ "direction" \in DOMAIN result'.gestures[1].properties ]_vars

(***************************************************************************)
(* Device classification                                                   *)
(***************************************************************************)
\* C12: initialize_device_detection with viewport 375x667 classifies the
\* device as Mobile and sets touch_target_size to 44; with viewport 1920x1080
\* it classifies the device as Desktop and sets touch_target_size to 32.
C12_PhoneIsMobileAndScreenIsDesktop ==
    [][ /\ InitializeDeviceDetection(Viewport(375, 667)) =>
              /\ responsive_adapter'.device_info.device_type = "Mobile"
              /\ responsive_adapter'.interaction_settings.touch_target_size = 44
        /\ InitializeDeviceDetection(Viewport(1920, 1080)) =>
              /\ responsive_adapter'.device_info.device_type = "Desktop"
              /\ responsive_adapter'.interaction_settings.touch_target_size = 32 ]_vars

(***************************************************************************)
(* Animation progress                                                      *)
(***************************************************************************)
\* C13: for an active animation of duration 1000 ms and loop_count = 1, along
\* render_frame calls with strictly increasing timestamps the reported eased
\* progress is non-decreasing until it reaches 1, and on the tick where it
\* reaches 1 the animation is removed (no later tick reports it).
C13_EasedProgressNonDecreasing ==
    [][ \A timestamp \in FrameTimes :
          ( /\ RenderFrame(timestamp)
            /\ result.op = "render_frame"
            /\ result.code = "Ok"
            /\ result'.code = "Ok"
            /\ Unwrap(result.timestamp) < timestamp )
          => \A before \in result.changes :
                 IF before.progress_num >= before.progress_den
                 THEN \A after \in result'.changes :
                          after.animation_id # before.animation_id
                 ELSE \A after \in result'.changes :
                          after.animation_id = before.animation_id
                              => after.progress_num >= before.progress_num ]_vars

\* C14 as stated: render_frame called twice in a row with the same timestamp
\* and nothing in between returns the same animation ids with identical
\* progress values, for every timestamp and every set of active animations.
C14_SameTimestampSameUpdates ==
    [][ \A timestamp \in FrameTimes :
          ( /\ RenderFrame(timestamp)
            /\ result.op = "render_frame"
            /\ result.code = "Ok"
            /\ result.timestamp = Some(timestamp)
            /\ result'.code = "Ok" )
          => result'.changes = result.changes ]_vars

\* C14 amended: when both calls succeed, the second reports exactly the
\* animations that are still active after the first, with identical progress
\* values; an animation the first call completed was reported by it with
\* progress 1 and is not reported by the second.
C14_SameTimestampSameUpdatesWhileActive ==
    [][ \A timestamp \in FrameTimes :
          ( /\ RenderFrame(timestamp)
            /\ result.op = "render_frame"
            /\ result.code = "Ok"
            /\ result.timestamp = Some(timestamp)
            /\ result'.code = "Ok" )
          => /\ result'.changes =
                    { change \in result.changes :
                        change.animation_id
                            \in DOMAIN animation_controller.active_animations }
             /\ \A change \in result.changes :
                    change.animation_id \notin DOMAIN animation_controller.active_animations
                        => change.progress_num = change.progress_den
             /\ animation_controller' = animation_controller ]_vars

\* a frame reported an animation part-way through that is still active, so
\* that a frame at the same timestamp has the animation to report again
C14_Witness ==
    /\ result.op = "render_frame"
    /\ result.code = "Ok"
    /\ \E change \in result.changes :
           /\ change.animation_id \in DOMAIN animation_controller.active_animations
           /\ 0 < change.progress_num
           /\ change.progress_num < change.progress_den
           /\ Unwrap(result.timestamp)
                  > animation_controller.active_animations[change.animation_id].start_time

(***************************************************************************)
(* Delegation                                                              *)
(***************************************************************************)
\* C15: delegation is additive.  For an accepted event with target t the
\* responses are the direct responses (those the same event gets from a
\* manager without delegates), followed by exactly one Delegated response for
\* each delegate registered on t whose event types contain the event's kind,
\* in registration order, carrying that delegate's handler id and t as
\* original target; delegates on other targets or for other kinds add nothing.
C15_DelegationIsAdditive ==
    [][ \A event \in DelegateEvents(clock) :
          ( /\ ProcessInteraction(event, 0, DelegateMaxEvents, MaxClock)
            /\ IsSome(event.target_element)
            /\ result'.code \notin { "INTERACTION_NOT_ALLOWED",
                                     "INTERACTION_RATE_EXCEEDED" } )
          => LET t == Unwrap(event.target_element)
                 registered == IF t \in DOMAIN interaction_manager.event_delegates
                               THEN interaction_manager.event_delegates[t]
                               ELSE << >>
                 Concerned(d) == event.event_type \in d.event_types
                 concerned == SelectSeq(registered, Concerned)
                 direct == process_event(
                               [ interaction_manager EXCEPT !.event_delegates = << >> ],
                               adapt_event(responsive_adapter, event), 0).responses
                 responses == result'.responses
             IN  /\ Len(responses) = Len(direct) + Len(concerned)
                 /\ SubSeq(responses, 1, Len(direct)) = direct
                 /\ \A i \in 1..Len(direct) : direct[i].response_type # "Delegated"
                 /\ \A i \in 1..Len(concerned) :
                        LET response == responses[Len(direct) + i]
                        IN  /\ response.response_type = "Delegated"
                            /\ response.target_element = Some(concerned[i].element_id)
                            /\ response.data.handler_id = concerned[i].handler_id
                            /\ response.data.original_target = t
                 /\ interaction_manager'.event_delegates
                        = interaction_manager.event_delegates ]_vars

\* a Click on a target with two delegates, one for clicks and one for mouse
\* moves, was answered by a direct response followed by one Delegated response,
\* while the other target has a delegate for clicks too
C15_Witness ==
    /\ result.op = "process_interaction"
    /\ result.code = "Ok"
    /\ Len(result.responses) = 2
    /\ result.responses[1].response_type = "Click"
    /\ result.responses[2].response_type = "Delegated"
    /\ \E t \in DOMAIN interaction_manager.event_delegates :
           /\ result.responses[2].data.original_target = t
           /\ Len(interaction_manager.event_delegates[t]) = 2
           /\ \E i \in 1..2 :
                  "MouseMove" \in interaction_manager.event_delegates[t][i].event_types
           /\ \E u \in DOMAIN interaction_manager.event_delegates \ { t } :
                  \E i \in 1..Len(interaction_manager.event_delegates[u]) :
                      "Click" \in interaction_manager.event_delegates[u][i].event_types

\* the handler ids of the delegates registered on target t
RegisteredHandlers(im, t) ==
    IF t \in DOMAIN im.event_delegates
    THEN { im.event_delegates[t][i].handler_id : i \in 1..Len(im.event_delegates[t]) }
    ELSE {}

\* C16: after remove_event_delegate(target, handler_id) no delegate with that
\* handler id is registered on target, and none is until one is added to
\* target again, so no event on target yields a Delegated response with that
\* handler id; the event is still processed and its direct responses still
\* emitted; delegates with other handler ids or on other targets stay as they
\* were.
C16_RemovedDelegateStaysSilent ==
    [][ /\ \A target \in DelegateTargets, handler_id \in DelegateHandlerIds :
              ( RemoveInteractionDelegate(target, handler_id) /\ result'.code = "Ok" )
              => LET Other(d) == d.handler_id # handler_id
                 IN  /\ handler_id \notin RegisteredHandlers(interaction_manager', target)
                     /\ target \in DOMAIN interaction_manager.event_delegates
                            => interaction_manager'.event_delegates[target]
                                   = SelectSeq(interaction_manager.event_delegates[target],
                                               Other)
                     /\ \A other \in DOMAIN interaction_manager.event_delegates \ { target } :
                            interaction_manager'.event_delegates[other]
                                = interaction_manager.event_delegates[other]
                     /\ DOMAIN interaction_manager'.event_delegates
                            = DOMAIN interaction_manager.event_delegates
        /\ \A target \in DelegateTargets, handler_id \in DelegateHandlerIds :
              ( /\ handler_id \notin RegisteredHandlers(interaction_manager, target)
                /\ handler_id \in RegisteredHandlers(interaction_manager', target) )
              => \E delegate \in EventDelegates :
                     /\ delegate.handler_id = handler_id
                     /\ AddInteractionDelegate(target, delegate, MaxDelegates)
        /\ \A event \in DelegateEvents(clock) :
              ( /\ ProcessInteraction(event, 0, DelegateMaxEvents, MaxClock)
                /\ IsSome(event.target_element)
                /\ result'.code \notin { "INTERACTION_NOT_ALLOWED",
                                         "INTERACTION_RATE_EXCEEDED" } )
              => LET direct == process_event(
                                   [ interaction_manager EXCEPT !.event_delegates = << >> ],
                                   adapt_event(responsive_adapter, event), 0).responses
                 IN  /\ interaction_manager'.performance_metrics.total_events
                            = interaction_manager.performance_metrics.total_events + 1
                     /\ Len(result'.responses) >= Len(direct)
                     /\ SubSeq(result'.responses, 1, Len(direct)) = direct
                     /\ \A i \in 1..Len(result'.responses) :
                            result'.responses[i].response_type = "Delegated"
                                => result'.responses[i].data.handler_id
                                       \in RegisteredHandlers(interaction_manager,
                                               Unwrap(event.target_element)) ]_vars

\* a removal emptied the delegate list of one target while the other target
\* kept its two delegates
C16_Witness ==
    /\ result.op = "remove_interaction_delegate"
    /\ result.code = "Ok"
    /\ \E t \in DOMAIN interaction_manager.event_delegates :
           /\ interaction_manager.event_delegates[t] = << >>
           /\ \E u \in DOMAIN interaction_manager.event_delegates \ { t } :
                  Len(interaction_manager.event_delegates[u]) = 2
    /\ interaction_manager.performance_metrics.total_events > 0

(***************************************************************************)
(* Metrics                                                                 *)
(***************************************************************************)
\* C17: total_events counts the InteractionManager::process_event calls: each
\* event the engine hands to the manager raises it by exactly one, whatever
\* its kind and payload (and whatever the later stages return); an event the
\* engine rejects at the permission check is not counted, and nothing else
\* changes the counter.
C17_TotalEventsCountsProcessed ==
    [][ interaction_manager'.performance_metrics.total_events =
            IF /\ result'.code \notin { "INTERACTION_NOT_ALLOWED",
                                        "INTERACTION_RATE_EXCEEDED" }
               /\ \E event \in InteractEvents(document_state, clock),
                     processing_time \in ProcessingTimes :
                      ProcessInteraction(event, processing_time, MaxEvents, InteractMaxClock)
            THEN interaction_manager.performance_metrics.total_events + 1
            ELSE interaction_manager.performance_metrics.total_events ]_vars

\* an event was rejected for its rate after another had been processed: the
\* security context has counted both, the manager one
C17_Witness ==
    /\ result.op = "process_interaction"
    /\ result.code = "INTERACTION_RATE_EXCEEDED"
    /\ interaction_manager.performance_metrics.total_events = 1
    /\ security_context.interaction_count = 2

(***************************************************************************)
(* Keyboard                                                                *)
(***************************************************************************)
\* C18: an accepted KeyDown with key k records k in pressed_keys with the
\* event timestamp and, when k is Control, Shift, Alt or Meta, sets the
\* matching modifier flag; an accepted KeyUp with key k removes k from
\* pressed_keys and clears the matching flag (so after KeyDown(k) and then
\* KeyUp(k), k is not pressed and its flag is false); the other keys and flags
\* stay as they were, and both emit a response carrying the key.
C18_KeyDownRecordsKeyUpClears ==
    [][ \A event \in KeyboardEvents(clock) :
          ( /\ ProcessInteraction(event, 0, KeyboardMaxEvents, InteractMaxClock)
            /\ IsSome(event.keyboard_data)
            /\ event.event_type \in { "KeyDown", "KeyUp" }
            /\ result'.code \notin { "INTERACTION_NOT_ALLOWED",
                                     "INTERACTION_RATE_EXCEEDED" } )
          => LET k == Unwrap(event.keyboard_data).key
                 down == event.event_type = "KeyDown"
                 before == interaction_manager.keyboard_state
                 after == interaction_manager'.keyboard_state
             IN  /\ IF down
                    THEN /\ k \in DOMAIN after.pressed_keys
                         /\ after.pressed_keys[k] = event.timestamp
                    ELSE k \notin DOMAIN after.pressed_keys
                 /\ DOMAIN after.pressed_keys \ { k } = DOMAIN before.pressed_keys \ { k }
                 /\ \A other \in DOMAIN before.pressed_keys \ { k } :
                        after.pressed_keys[other] = before.pressed_keys[other]
                 /\ after.modifiers.ctrl =
                        IF k = "Control" THEN down ELSE before.modifiers.ctrl
                 /\ after.modifiers.shift =
                        IF k = "Shift" THEN down ELSE before.modifiers.shift
                 /\ after.modifiers.alt =
                        IF k = "Alt" THEN down ELSE before.modifiers.alt
                 /\ after.modifiers.meta =
                        IF k = "Meta" THEN down ELSE before.modifiers.meta
                 /\ Len(result'.responses) = 1
                 /\ result'.responses[1].response_type = event.event_type
                 /\ result'.responses[1].data.key = k ]_vars

\* Shift went up after three key events while Control is still held: Shift is
\* neither pressed nor flagged, Control is both
C18_Witness ==
    /\ result.op = "process_interaction"
    /\ result.code = "Ok"
    /\ Len(result.responses) = 1
    /\ result.responses[1].response_type = "KeyUp"
    /\ result.responses[1].data.key = "Shift"
    /\ interaction_manager.performance_metrics.keyboard_events_processed = 3
    /\ DOMAIN interaction_manager.keyboard_state.pressed_keys = { "Control" }
    /\ interaction_manager.keyboard_state.modifiers.ctrl
    /\ ~ interaction_manager.keyboard_state.modifiers.shift

C21_MouseDownPressesMouseUpHovers ==
    [][ \A event \in MouseEvents(clock) :
          ( /\ ProcessInteraction(event, 0, MouseMaxEvents, InteractMaxClock)
            /\ IsSome(event.mouse_data)
            /\ result'.code \notin { "INTERACTION_NOT_ALLOWED",
                                     "INTERACTION_RATE_EXCEEDED" } )
          => LET before == interaction_manager
                 after == interaction_manager'
                 recorded == before.mouse_state.target_element
             IN  /\ ( event.event_type = "MouseDown" /\ IsSome(event.target_element) )
                    => LET t == Unwrap(event.target_element)
                       IN  /\ after.mouse_state.target_element = Some(t)
                           /\ t \in DOMAIN after.interaction_states
                           /\ after.interaction_states[t].state_type = "Pressed"
                           /\ result'.responses =
                                  << InteractionResponse(Some(t), "StateChanged",
                                                         [state |-> "pressed"]) >>
                 /\ ( event.event_type = "MouseUp" /\ IsSome(recorded) )
                    => LET t == Unwrap(recorded)
                       IN  /\ after.mouse_state.target_element = None
                           /\ t \in DOMAIN after.interaction_states
                           /\ after.interaction_states[t].state_type = "Hover"
                           /\ \A other \in DOMAIN before.interaction_states \ { t } :
                                  after.interaction_states[other]
                                      = before.interaction_states[other]
                           /\ result'.responses =
                                  << InteractionResponse(Some(t), "StateChanged",
                                                         [state |-> "hover"]) >>
                 /\ ( event.event_type = "MouseUp" /\ ~IsSome(recorded) )
                    => /\ after.mouse_state.target_element = None
                       /\ after.interaction_states = before.interaction_states
                       /\ \A i \in 1..Len(result'.responses) :
                              result'.responses[i].response_type # "StateChanged" ]_vars

\* a MouseUp answered with StateChanged hover for the id no element has,
\* recorded by the MouseDown before it, while the other id stays Pressed from
\* an earlier MouseDown
C21_Witness ==
    /\ result.op = "process_interaction"
    /\ result.responses = << InteractionResponse(Some(GhostId), "StateChanged",
                                                 [state |-> "hover"]) >>
    /\ interaction_manager.mouse_state.target_element = None
    /\ DOMAIN interaction_manager.interaction_states = { 0, GhostId }
    /\ interaction_manager.interaction_states[GhostId].state_type = "Hover"
    /\ interaction_manager.interaction_states[0].state_type = "Pressed"

\* C22: after a MouseDown, a MouseMove with a button held whose position is
\* more than 5 units away from where the button went down emits DragStart and
\* marks the mouse state as dragging, and emits a Drag response.
C22_MoveBeyondThresholdStartsDrag ==
    [][ \A event \in MouseEvents(clock) :
          ( /\ ProcessInteraction(event, 0, MouseMaxEvents, InteractMaxClock)
            /\ IsSome(event.mouse_data)
            /\ event.event_type = "MouseMove"
            /\ Unwrap(event.mouse_data).buttons > 0
            /\ IsSome(interaction_manager.mouse_state.target_element)
            /\ DistanceSquared(interaction_manager.mouse_state.position,
                               Unwrap(event.mouse_data).position) > 25
            /\ result'.code \notin { "INTERACTION_NOT_ALLOWED",
                                     "INTERACTION_RATE_EXCEEDED" } )
          => /\ interaction_manager'.mouse_state.dragging
             /\ \E i \in 1..Len(result'.responses) :
                    result'.responses[i].response_type = "DragStart"
             /\ \E i \in 1..Len(result'.responses) :
                    result'.responses[i].response_type = "Drag" ]_vars

(***************************************************************************)
(* Errors after the permission check                                       *)
(***************************************************************************)
\* C23: when process_interaction returns UNKNOWN_HANDLER or
\* INVALID_DATA_UPDATE, the call has modified nothing: interaction_count, the
\* interaction manager (metrics, click, mouse, touch and keyboard state), the
\* gesture recognizer and the document are as they were before the call.
C23_LateErrorLeavesState ==
    [][ \A event \in InteractEvents(document_state, clock),
           processing_time \in ProcessingTimes :
          ( /\ ProcessInteraction(event, processing_time, MaxEvents, InteractMaxClock)
            /\ result'.code \in { "UNKNOWN_HANDLER", "INVALID_DATA_UPDATE" } )
          => /\ security_context'.interaction_count = security_context.interaction_count
             /\ interaction_manager' = interaction_manager
             /\ gesture_recognizer' = gesture_recognizer
             /\ document_state' = document_state ]_vars

(***************************************************************************)
(* Gesture classification, pinch and cleanup                               *)
(***************************************************************************)
\* C24: gesture classification is deterministic: for the same recognizer
\* state and the same single-touch sample, process_touch_input has one
\* possible result, the same gesture kind in every run.
C24_ClassificationDeterministic ==
    [][ \A position \in SwipePositions :
          ProcessTouchInput(SingleTouchInput(position), clock)
          => \A outcome \in process_touch_input(gesture_recognizer,
                                                 SingleTouchInput(position), clock) :
                 outcome.gestures = result'.gestures ]_vars

\* C25: for two-touch input with a multi-touch recognition in flight,
\* process_touch_input emits a Pinch exactly when the inter-touch distance of
\* the sample differs by more than 10% from that of the previous multi-touch
\* sample, with the ratio of the two distances as scale; equal distances emit
\* no Pinch.  (The first touch is at the origin, so the previous inter-touch
\* distance is twice the distance of the previous sample's centre from it.)
C25_PinchComparesConsecutiveSamples ==
    [][ \A position \in GesturePositions \ { Position(0, 0) } :
          ( /\ ProcessTouchInput(TwoTouchInput(Position(0, 0), position), clock)
            /\ MultiTouchKey \in DOMAIN gesture_recognizer.active_recognizers )
          => LET samples == gesture_recognizer.active_recognizers[MultiTouchKey].samples
                 last_squared ==
                     4 * DistanceSquared(Position(0, 0), samples[Len(samples)].position)
                 distance_squared == DistanceSquared(Position(0, 0), position)
                 \* |distance / last - 1| > 0.1
                 changed == \/ 100 * distance_squared > 121 * last_squared
                            \/ 100 * distance_squared < 81 * last_squared
             IN  IF changed
                 THEN /\ Len(result'.gestures) = 1
                      /\ result'.gestures[1].gesture_type = "Pinch"
                      /\ result'.gestures[1].properties.scale_squared
                             = Rat(distance_squared, last_squared)
                 ELSE result'.gestures = << >> ]_vars

\* C26: clear_completed_recognitions purges an in-flight recognition exactly
\* when its last sample is more than 1000 ms old; a recognition that keeps
\* receiving samples at shorter intervals is kept, however long ago it started.
C26_CleanupByLastSample ==
    [][ ClearCompletedRecognitions
        => \A key \in DOMAIN gesture_recognizer.active_recognizers :
               LET samples == gesture_recognizer.active_recognizers[key].samples
               IN  key \in DOMAIN gesture_recognizer'.active_recognizers
                   <=> clock - samples[Len(samples)].timestamp <= 1000 ]_vars

(***************************************************************************)
(* Animation looping and change records                                    *)
(***************************************************************************)
\* C27: on a tick where an animation's raw progress reaches 1 its iteration
\* count is incremented and it restarts with the tick's timestamp as start
\* time if loop_count is -1 or the new count is below loop_count, otherwise it
\* is removed; an animation not yet complete is left as it is.  Hence an
\* active animation with loop_count n >= 1 has completed fewer than n times
\* (it is removed on its n-th completion, not before), and one with
\* loop_count -1 is never removed by update_animations.
C27_LoopingRestartsOrRemoves ==
    /\ [] ( \A id \in DOMAIN animation_controller.active_animations :
               LET active == animation_controller.active_animations[id]
               IN  \/ active.animation.loop_count = -1
                   \/ active.current_iteration < active.animation.loop_count )
    /\ [][ \A timestamp \in FrameTimestamps(clock) :
             UpdateAnimations(timestamp)
             => \A id \in DOMAIN animation_controller.active_animations :
                    LET active == animation_controller.active_animations[id]
                        after == animation_controller'.active_animations
                        complete == timestamp - active.start_time
                                        >= active.animation.duration
                        again == \/ active.animation.loop_count = -1
                                 \/ active.current_iteration + 1
                                        < active.animation.loop_count
                    IN  /\ ( complete /\ again )
                           => /\ id \in DOMAIN after
                              /\ after[id].current_iteration
                                     = active.current_iteration + 1
                              /\ after[id].start_time = timestamp
                              /\ after[id].animation = active.animation
                        /\ ( complete /\ ~again ) => id \notin DOMAIN after
                        /\ ~complete => ( id \in DOMAIN after /\ after[id] = active )
                        /\ active.animation.loop_count = -1 => id \in DOMAIN after ]_vars

\* a tick removed the animation that runs twice on its second completion,
\* while the one that runs for ever has restarted twice
C27_Witness ==
    /\ result.op = "update_animations"
    /\ DOMAIN animation_controller.active_animations = { 0 }
    /\ animation_controller.active_animations[0].animation.loop_count = -1
    /\ animation_controller.active_animations[0].current_iteration = 2
    /\ \E change \in result.changes :
           /\ change.animation_id = 1
           /\ change.progress_num = change.progress_den

\* C28: each update_animations tick returns exactly one AnimationUpdate
\* record for every animation active when the tick starts, the completing
\* ones included, with that animation's progress at the tick, and none for
\* any other animation (one stopped or removed before the tick).
C28_OneChangePerActiveAnimation ==
    [][ \A timestamp \in FrameTimestamps(clock) :
          UpdateAnimations(timestamp)
          => LET active == animation_controller.active_animations
             IN  /\ { change.animation_id : change \in result'.changes } = DOMAIN active
                 /\ Cardinality(result'.changes) = Cardinality(DOMAIN active)
                 /\ \A change \in result'.changes :
                        change = AnimationChange(active[change.animation_id],
                                                 timestamp) ]_vars

\* a tick reported one animation, which completed on it and is gone, and not
\* the other one, which had been stopped
C28_Witness ==
    /\ result.op = "update_animations"
    /\ animation_controller.active_animations = << >>
    /\ Cardinality(result.changes) = 1
    /\ \E change \in result.changes :
           /\ change.animation_id = 1
           /\ change.progress_num = change.progress_den

(***************************************************************************)
(* Click bookkeeping                                                       *)
(***************************************************************************)
\* C29: an accepted Click with a mouse payload at timestamp ts resets
\* click_count to 1 if ts - last_click_time exceeds 500 ms and increments it
\* otherwise (a gap of exactly 500 ms does not reset it); last_click_time
\* becomes ts and the Click response carries the resulting count.
C29_ClickCountResetsAbove500 ==
    [][ \A event \in ClickEvents(clock) :
          ( /\ ProcessInteraction(event, 0, ClickMaxEvents, ClickMaxClock)
            /\ event.event_type = "Click"
            /\ IsSome(event.mouse_data)
            /\ result'.code \notin { "INTERACTION_NOT_ALLOWED",
                                     "INTERACTION_RATE_EXCEEDED" } )
          => LET before == interaction_manager.mouse_state
                 after == interaction_manager'.mouse_state
             IN  /\ after.click_count =
                        IF event.timestamp - before.last_click_time > 500
                        THEN 1
                        ELSE before.click_count + 1
                 /\ after.last_click_time = event.timestamp
                 /\ Len(result'.responses) >= 1
                 /\ result'.responses[1].response_type = "Click"
                 /\ result'.responses[1].data.click_count = after.click_count ]_vars

(***************************************************************************)
(* Touch trackers                                                          *)
(***************************************************************************)
\* the identifiers in the changed_touches of a touch event
ChangedIdentifiers(event) ==
    { Unwrap(event.touch_data).changed_touches[i].identifier :
        i \in 1..Len(Unwrap(event.touch_data).changed_touches) }

\* C30: the touch-tracker map holds exactly the identifiers that appeared in
\* the changed_touches of a TouchStart and not since in those of a TouchEnd
\* or TouchCancel: an accepted TouchStart adds its changed identifiers, an
\* accepted TouchEnd or TouchCancel removes its changed identifiers, a
\* TouchMove neither adds nor removes a tracker, and no other step changes
\* the set of tracked identifiers.
C30_TrackersFollowStartAndEnd ==
    [][ /\ \A event \in TouchEvents(clock) :
              ( /\ ProcessInteraction(event, 0, TouchMaxEvents, InteractMaxClock)
                /\ IsSome(event.touch_data)
                /\ result'.code \notin { "INTERACTION_NOT_ALLOWED",
                                         "INTERACTION_RATE_EXCEEDED" } )
              => LET before == DOMAIN interaction_manager.touch_tracking
                     after == DOMAIN interaction_manager'.touch_tracking
                 IN  after =
                       CASE event.event_type = "TouchStart" ->
                              before \cup ChangedIdentifiers(event)
                         [] event.event_type \in { "TouchEnd", "TouchCancel" } ->
                              before \ ChangedIdentifiers(event)
                         [] OTHER -> before
        /\ ( ~ \E event \in TouchEvents(clock) :
                  /\ ProcessInteraction(event, 0, TouchMaxEvents, InteractMaxClock)
                  /\ IsSome(event.touch_data)
                  /\ result'.code \notin { "INTERACTION_NOT_ALLOWED",
                                           "INTERACTION_RATE_EXCEEDED" } )
              => DOMAIN interaction_manager'.touch_tracking
                     = DOMAIN interaction_manager.touch_tracking ]_vars

\* both fingers were put down and the first was lifted: the second is still
\* tracked
C30_Witness ==
    /\ result.op = "process_interaction"
    /\ Len(result.responses) >= 1
    /\ result.responses[Len(result.responses)].response_type = "TouchEnd"
    /\ DOMAIN interaction_manager.touch_tracking = { 1 }
    /\ interaction_manager.performance_metrics.touch_points_processed = 3

(***************************************************************************)
(* Taps                                                                    *)
(***************************************************************************)
\* touch i of `changed` meets a tracker: its identifier is tracked and no
\* earlier touch of the list has taken the tracker away
MeetsTracker(trackers, changed, i) ==
    /\ changed[i].identifier \in DOMAIN trackers
    /\ \A j \in 1..(i - 1) : changed[j].identifier # changed[i].identifier

\* the kinds of the responses the claim expects from a TouchEnd or
\* TouchCancel, from touch i on: a Tap per touch that meets a tracker less
\* than 10 units from its start and less than 300 ms after it, then TouchEnd
RECURSIVE ExpectedEndKinds(_, _, _, _)
ExpectedEndKinds(trackers, event, changed, i) ==
    IF i > Len(changed) THEN << "TouchEnd" >>
    ELSE (IF /\ MeetsTracker(trackers, changed, i)
             /\ DistanceSquared(trackers[changed[i].identifier].start_position,
                                changed[i].position) < 100
             /\ event.timestamp - trackers[changed[i].identifier].start_time < 300
          THEN << "Tap" >> ELSE << >>)
         \o ExpectedEndKinds(trackers, event, changed, i + 1)

\* C31: an accepted TouchEnd or TouchCancel answers, for each changed touch
\* that meets a tracker, with a Tap exactly when the touch lies less than 10
\* units from the tracker's start position and less than 300 ms after its
\* start time; a touch without a tracker yields no Tap; one TouchEnd response
\* follows the Taps in every case.
C31_TapWithinTenUnitsAnd300ms ==
    [][ \A event \in TapEvents(clock) :
          ( /\ event.event_type \in { "TouchEnd", "TouchCancel" }
            /\ ProcessInteraction(event, 0, TapMaxEvents, TapMaxClock)
            /\ result'.code \notin { "INTERACTION_NOT_ALLOWED",
                                     "INTERACTION_RATE_EXCEEDED" } )
          => /\ result'.code = "Ok"
             /\ [ k \in 1..Len(result'.responses) |->
                     result'.responses[k].response_type ]
                  = ExpectedEndKinds(interaction_manager.touch_tracking, event,
                                     Unwrap(event.touch_data).changed_touches, 1)
             /\ \A k \in 1..Len(result'.responses) :
                    result'.responses[k].target_element = event.target_element ]_vars

\* both fingers were put down and lifted together 200 ms later, the first 5
\* units from its start: two Taps and the TouchEnd were answered
C31_Witness ==
    /\ result.op = "process_interaction"
    /\ clock = 200
    /\ Len(result.responses) = 3
    /\ result.responses[1].response_type = "Tap"
    /\ result.responses[2].response_type = "Tap"
    /\ result.responses[3].response_type = "TouchEnd"
    /\ interaction_manager.touch_tracking = << >>

(***************************************************************************)
(* Focus                                                                   *)
(***************************************************************************)
\* the interaction states other than that of `touched` are as before
OtherStatesKept(before, after, touched) ==
    /\ DOMAIN after \ touched = DOMAIN before \ touched
    /\ \A id \in DOMAIN before \ touched : after[id] = before[id]

\* C32: an accepted Focus event makes its target the focused element and,
\* when it names a target t, sets t's interaction state to Focused; an
\* accepted Blur event sets the interaction state of the element focused
\* before it to Idle, whatever target the event itself names, and clears
\* the focused-element reference; either is answered by one FocusChanged
\* response, and no other element's interaction state changes.
C32_FocusAndBlurFollowFocusedElement ==
    [][ \A event \in FocusEvents(clock) :
          ( /\ ProcessInteraction(event, 0, FocusMaxEvents, InteractMaxClock)
            /\ result'.code \notin { "INTERACTION_NOT_ALLOWED",
                                     "INTERACTION_RATE_EXCEEDED" } )
          => LET focused == interaction_manager.keyboard_state.focused_element
                 before == interaction_manager.interaction_states
                 after == interaction_manager'.interaction_states
                 touched == IF event.event_type = "Focus"
                            THEN event.target_element ELSE focused
             IN  /\ interaction_manager'.keyboard_state.focused_element =
                        IF event.event_type = "Focus" THEN event.target_element ELSE None
                 /\ IsSome(touched) =>
                        /\ Unwrap(touched) \in DOMAIN after
                        /\ after[Unwrap(touched)].state_type =
                               IF event.event_type = "Focus" THEN "Focused" ELSE "Idle"
                 /\ OtherStatesKept(before, after,
                                    IF IsSome(touched) THEN { Unwrap(touched) } ELSE { })
                 /\ Len(result'.responses) = 1
                 /\ result'.responses[1].response_type = "FocusChanged"
                 /\ result'.responses[1].data.focused = (event.event_type = "Focus") ]_vars

\* a Blur naming one target was accepted while the other was focused: the
\* focused one went Idle, the named one kept the Focused state it had got
\* earlier, and nothing is focused
C32_Witness ==
    /\ result.op = "process_interaction"
    /\ result.code = "Ok"
    /\ Len(result.responses) = 1
    /\ result.responses[1].response_type = "FocusChanged"
    /\ ~ result.responses[1].data.focused
    /\ result.responses[1].target_element = Some(GhostId)
    /\ interaction_manager.keyboard_state.focused_element = None
    /\ DOMAIN interaction_manager.interaction_states = { 0, GhostId }
    /\ interaction_manager.interaction_states[0].state_type = "Idle"
    /\ interaction_manager.interaction_states[GhostId].state_type = "Focused"

(***************************************************************************)
(* Device detection                                                        *)
(***************************************************************************)
\* the device type the claim assigns to a viewport: by the diagonal d, with
\* d < 600 iff d^2 < 360000 and d < 1200 iff d^2 < 1440000
DeviceTypeOfDiagonal(viewport) ==
    LET d2 == viewport.width * viewport.width + viewport.height * viewport.height
    IN  IF d2 < 360000 THEN "Mobile" ELSE IF d2 < 1440000 THEN "Tablet" ELSE "Desktop"

TuningTables(ra) ==
    [ interaction_settings |-> ra.interaction_settings,
      performance_profile  |-> ra.performance_profile,
      adaptive_thresholds  |-> ra.adaptive_thresholds ]

\* C34: the tuning tables are recomputed in full on every device change, so
\* they depend only on the current device info: the adapter that is told of
\* a device after some history holds the same interaction settings,
\* performance profile and adaptive thresholds as a newly made adapter that
\* is told of the same device at once.
C34_TablesDependOnDeviceInfoOnly ==
    [][ \A device_info \in CapabilityInfos(responsive_adapter) :
          UpdateDeviceInfo(device_info)
          => /\ responsive_adapter'.device_info
                    = update_device_info(ResponsiveAdapterNew, device_info).device_info
             /\ TuningTables(responsive_adapter')
                    = TuningTables(update_device_info(ResponsiveAdapterNew, device_info)) ]_vars

(***************************************************************************)
(* Modifier flags                                                          *)
(***************************************************************************)
\* C35: in every reachable state each modifier flag agrees with the
\* pressed-key map: ctrl is set exactly when "Control" is a pressed key,
\* shift when "Shift" is, alt when "Alt" is, and meta when "Meta" is.
C35_ModifiersAgreeWithPressedKeys ==
    LET pressed == DOMAIN interaction_manager.keyboard_state.pressed_keys
        modifiers == interaction_manager.keyboard_state.modifiers
    IN  /\ modifiers.ctrl  <=> "Control" \in pressed
        /\ modifiers.shift <=> "Shift" \in pressed
        /\ modifiers.alt   <=> "Alt" \in pressed
        /\ modifiers.meta  <=> "Meta" \in pressed

\* Alt and a letter are held and a KeyPress of Meta was answered: alt is the
\* one flag that is set
C35_Witness ==
    /\ result.op = "process_interaction"
    /\ Len(result.responses) = 1
    /\ result.responses[1].response_type = "KeyPress"
    /\ result.responses[1].data.key = "Meta"
    /\ DOMAIN interaction_manager.keyboard_state.pressed_keys = { "Alt", "a" }
    /\ interaction_manager.keyboard_state.modifiers.alt
    /\ ~ interaction_manager.keyboard_state.modifiers.meta

Recorded ==
    /\ editor_state' # editor_state
    /\ result'.op \in { "editor_create_element", "editor_update_element",
                        "editor_delete_element" }

\* C38: in every state of the editor 0 <= current_index <= operations.len()
\* <= max_operations; undo answers "Nothing to undo" exactly when
\* current_index is 0 and redo "Nothing to redo" exactly when current_index
\* is operations.len(); and an edit that is recorded discards the operations
\* at and after current_index: what precedes the new operation in the
\* history are the operations before current_index (less the oldest one when
\* the history is full), and current_index is the length of the history.
C38_HistoryIndexWithinOperations ==
    /\ [] ( /\ 0 <= editor_state.history.current_index
            /\ editor_state.history.current_index
                   <= Len(editor_state.history.operations)
            /\ Len(editor_state.history.operations)
                   <= editor_state.history.max_operations )
    /\ [][ /\ Undo => ( result'.code = "Nothing to undo"
                            <=> editor_state.history.current_index = 0 )
           /\ Redo => ( result'.code = "Nothing to redo"
                            <=> editor_state.history.current_index
                                    = Len(editor_state.history.operations) )
           /\ Recorded =>
                 LET before == SubSeq(editor_state.history.operations, 1,
                                      editor_state.history.current_index)
                     after == editor_state'.history.operations
                 IN  /\ after # << >>
                     /\ SubSeq(after, 1, Len(after) - 1) =
                            IF Len(before) = editor_state.history.max_operations
                            THEN Tail(before) ELSE before
                     /\ editor_state'.history.current_index = Len(after) ]_vars

\* two edits were undone and a third edit recorded: it is the only operation
\* of the history
C38_Witness ==
    /\ result.op = "editor_update_element"
    /\ Len(editor_state.document.elements) = 1
    /\ Len(editor_state.history.operations) = 1
    /\ editor_state.history.operations[1].id = 2
    /\ editor_state.history.current_index = 1

\* C39: the ids of the elements of the editor document are pairwise distinct
\* in every state: create_element never gives a new element the id of an
\* element that is in the document.
C39_EditorElementIdsDistinct ==
    \A i, j \in 1..Len(editor_state.document.elements) :
        editor_state.document.elements[i].id = editor_state.document.elements[j].id
            => i = j

\* the last `limit` entries of `entries`, in their order
MostRecent(entries, limit) ==
    IF Len(entries) <= limit THEN entries
    ELSE SubSeq(entries, Len(entries) - limit + 1, Len(entries))

\* C40: the gesture history never holds more than 100 entries, and every
\* process_touch_input call leaves in it the most recent detected gestures in
\* detection order: the history before the call followed by the gestures the
\* call detected, cut at the front to its last 100 entries
C40_HistoryKeepsMostRecentGestures ==
    /\ [](Len(gesture_recognizer.gesture_history) <= GestureHistoryLimit)
    /\ [][ \A touch_data \in HistoryInputs :
               ProcessTouchInputWithin(touch_data, clock, HistoryMaxCalls,
                                       GestureHistoryLimit + 1)
               => gesture_recognizer'.gesture_history =
                      MostRecent(gesture_recognizer.gesture_history \o result'.gestures,
                                 GestureHistoryLimit) ]_vars

\* process_touch_input has detected 101 gestures: the history is full, its
\* oldest entry (detected at time 0) is gone and the newest is the last one
C40_Witness ==
    /\ result.op = "process_touch_input"
    /\ Len(result.gestures) = 1
    /\ Len(gesture_recognizer.active_recognizers[MultiTouchKey].samples) =
           GestureHistoryLimit + 2
    /\ Len(gesture_recognizer.gesture_history) = GestureHistoryLimit
    /\ gesture_recognizer.gesture_history[1].timestamp = 0
    /\ gesture_recognizer.gesture_history[2].timestamp = 1
    /\ gesture_recognizer.gesture_history[GestureHistoryLimit] = result.gestures[1]

====
